---------------------------- MODULE Spec2Model ----------------------------
(***************************************************************************)
(* Schema inference of Mock_JSON: SchemaAnalyzer (schema_analyzer.py), the *)
(* structural methods of MockDataGenerator (mock_data_generator.py) and    *)
(* SchemaCache (cache/schema_cache.py).                                    *)
(*                                                                         *)
(* A Python value is a record [t, v, s, items, fields]; a schema node (a   *)
(* Python dict) is a record [keys, type, properties, items,                *)
(* preserve_original, original_values] where keys is the set of dict keys  *)
(* that are present.  A call that raises yields [exception |-> name].      *)
(***************************************************************************)
EXTENDS Integers, Sequences, FiniteSets, TLC

VARIABLES
    pc,          \* the call that has just returned ("call" before any call)
    structure1,  \* merge: first operand
    structure2,  \* merge: second operand
    obj,         \* _analyze_structure: the value analysed
    max_depth,   \* _analyze_structure: the depth budget
    structure,   \* _add_preserved_field_info: the schema annotated in place
    examples,    \* the example corpus of the call
    cache_key,   \* analyze_structure: the cache_key argument
    cache,       \* SchemaCache._cache : key -> schema
    cache_hit,   \* analyze_structure: the call returned the cached schema
    result,      \* what the call returned, or the exception it raised
    history,     \* the calls made so far that the later ones are compared with
    thread,      \* analyze_structure: the frame of every thread inside a call
    field_hint,  \* generate_mock_value: the field_name argument
    field_profiles,  \* VehicleUnitedGenerator.field_profiles : field key -> values
    example_prob,    \* VehicleUnitedGenerator.example_prob, in tenths
    config,      \* Config: its preserve_fields
    _generators, \* GeneratorRegistry._generators : insurance type -> class
    saved_records,   \* GeneratorContext.saved_records
    validation_errors,  \* BaseValidator.validation_errors
    insurance_type,  \* the insurance_type argument of the call
    num_records  \* GenerateCommand.num_records

vars == <<pc, structure1, structure2, obj, max_depth, structure, examples, cache_key, cache,
          cache_hit, result, history, thread, field_hint, field_profiles, example_prob,
          config, _generators, saved_records, validation_errors, insurance_type, num_records>>

\* the state outside the inference engine
restVars == <<history, thread, field_hint, field_profiles, example_prob, config, _generators,
             saved_records, validation_errors, insurance_type, num_records>>

-----------------------------------------------------------------------------
(* Bounds *)

MaxSchemaDepth == 2

MaxValueDepth == 2

MaxBudget == 2

ChainDepth == 11

MaxExamples == 3

MaxCorpus == 2

MaxCacheEntries == 2

\* set_schema, register, unregister and clear calls on one object
MaxCalls == 3

\* threads inside analyze_structure at once
MaxThreads == 2

\* the most GenerateCommand.execute calls on one context
MaxExecutes == 2

HashBits == 3

-----------------------------------------------------------------------------
(* Program constants *)

\* def _analyze_structure(self, obj, max_depth: int = 10)
DefaultMaxDepth == 10

\* VehicleUnitedGenerator.__init__(..., example_prob=0.7), in tenths
DefaultExampleProb == 7

\* array_length = random.randint(1, 5)
MaxArrayLength == 5

-----------------------------------------------------------------------------
(* Python values *)

EmptyMap == [k \in {} |-> 0]

PyNone == [t |-> "NoneType", v |-> 0, s |-> "", items |-> <<>>, fields |-> EmptyMap]

PyBool(b) == [t |-> "bool", v |-> b, s |-> "", items |-> <<>>, fields |-> EmptyMap]

PyInt(n) == [t |-> "int", v |-> n, s |-> "", items |-> <<>>, fields |-> EmptyMap]

PyFloat(n) == [t |-> "float", v |-> n, s |-> "", items |-> <<>>, fields |-> EmptyMap]

PyStr(x) == [t |-> "str", v |-> 0, s |-> x, items |-> <<>>, fields |-> EmptyMap]

PyList(xs) == [t |-> "list", v |-> 0, s |-> "", items |-> xs, fields |-> EmptyMap]

PyDict(f) == [t |-> "dict", v |-> 0, s |-> "", items |-> <<>>, fields |-> f]

-----------------------------------------------------------------------------
(* Schema nodes and exceptions *)

Raise(e) == [exception |-> e]

IsRaise(r) == "exception" \in DOMAIN r

Leaf(t) ==
    [keys |-> {"type"}, type |-> t, properties |-> EmptyMap, items |-> <<>>,
     preserve_original |-> FALSE, original_values |-> <<>>]

Obj(p) ==
    [keys |-> {"type", "properties"}, type |-> "object", properties |-> p, items |-> <<>>,
     preserve_original |-> FALSE, original_values |-> <<>>]

Arr(i) ==
    [keys |-> {"type", "items"}, type |-> "array", properties |-> EmptyMap, items |-> <<i>>,
     preserve_original |-> FALSE, original_values |-> <<>>]

EmptyDict ==
    [keys |-> {}, type |-> "", properties |-> EmptyMap, items |-> <<>>,
     preserve_original |-> FALSE, original_values |-> <<>>]

\* structure.get("type") ; "None" stands for Python's None
GetType(n) == IF "type" \in n.keys THEN n.type ELSE "None"

\* structure.get("properties", {})
GetProperties(n) == IF "properties" \in n.keys THEN n.properties ELSE EmptyMap

\* structure.get("items", default)
GetItems(n, default) == IF "items" \in n.keys THEN n.items[1] ELSE default

-----------------------------------------------------------------------------
(* SchemaAnalyzer.merge_structures *)

\* self._merge_structures: SchemaAnalyzer defines merge_structures only, so
\* the attribute lookup raises AttributeError before any call happens.
_merge_structures(s1, s2) == Raise("AttributeError")

\* the tie-break slip "the left operand always wins"
merge_structures_LeftWins(s1, s2) ==
    IF GetType(s1) # GetType(s2)
    THEN s1
    ELSE IF GetType(s1) = "object"
    THEN LET p1 == GetProperties(s1)
             p2 == GetProperties(s2)
         IN  IF DOMAIN p1 \cap DOMAIN p2 # {}
             THEN Raise("AttributeError")
             ELSE Obj([key \in DOMAIN p1 \cup DOMAIN p2 |->
                          IF key \in DOMAIN p2 THEN p2[key] ELSE p1[key]])
    ELSE IF GetType(s1) = "array"
    THEN _merge_structures(GetItems(s1, Leaf("string")), GetItems(s2, Leaf("string")))
    ELSE s1

merge_structures(s1, s2) ==
    IF GetType(s1) # GetType(s2)
    THEN (IF GetType(s1) # "string" THEN s1 ELSE s2)
    ELSE IF GetType(s1) = "object"
    THEN LET p1 == GetProperties(s1)
             p2 == GetProperties(s2)
             merged_props == [key \in DOMAIN p1 \cup DOMAIN p2 |->
                 IF key \in DOMAIN p2
                 THEN (IF key \in DOMAIN p1 THEN _merge_structures(p1[key], p2[key]) ELSE p2[key])
                 ELSE p1[key]]
         IN  IF \E key \in DOMAIN merged_props : IsRaise(merged_props[key])
             THEN Raise("AttributeError")
             ELSE Obj(merged_props)
    ELSE IF GetType(s1) = "array"
    THEN LET items1 == GetItems(s1, Leaf("string"))
             items2 == GetItems(s2, Leaf("string"))
             merged_items == _merge_structures(items1, items2)
         IN  IF IsRaise(merged_items) THEN merged_items ELSE Arr(merged_items)
    ELSE s1

-----------------------------------------------------------------------------
(* MockDataGenerator._merge_structures *)

RECURSIVE MockDataGenerator_merge_structures(_, _)

\* the slip "merged_props starts empty instead of as a copy of structure1's"
MockDataGenerator_merge_structures_NoCopy(s1, s2) ==
    IF GetType(s1) # GetType(s2)
    THEN (IF GetType(s1) # "string" THEN s1 ELSE s2)
    ELSE IF GetType(s1) = "object"
    THEN LET p1 == GetProperties(s1)
             p2 == GetProperties(s2)
         IN  Obj([key \in DOMAIN p2 |->
                 IF key \in DOMAIN p1
                 THEN MockDataGenerator_merge_structures(p1[key], p2[key])
                 ELSE p2[key]])
    ELSE IF GetType(s1) = "array"
    THEN Arr(MockDataGenerator_merge_structures(GetItems(s1, Leaf("string")),
                                                GetItems(s2, Leaf("string"))))
    ELSE s1

MockDataGenerator_merge_structures(s1, s2) ==
    IF GetType(s1) # GetType(s2)
    THEN (IF GetType(s1) # "string" THEN s1 ELSE s2)
    ELSE IF GetType(s1) = "object"
    THEN LET p1 == GetProperties(s1)
             p2 == GetProperties(s2)
             merged_props == [key \in DOMAIN p1 \cup DOMAIN p2 |->
                 IF key \in DOMAIN p2
                 THEN (IF key \in DOMAIN p1
                       THEN MockDataGenerator_merge_structures(p1[key], p2[key])
                       ELSE p2[key])
                 ELSE p1[key]]
         IN  Obj(merged_props)
    ELSE IF GetType(s1) = "array"
    THEN LET items1 == GetItems(s1, Leaf("string"))
             items2 == GetItems(s2, Leaf("string"))
         IN  Arr(MockDataGenerator_merge_structures(items1, items2))
    ELSE s1

-----------------------------------------------------------------------------
(* Inputs of the merge specification *)

MergeKeys == {"a", "b"}

LeafKinds == {"string", "number", "boolean"}

Leaves == {Leaf(t) : t \in LeafKinds}

\* every Object over MergeKeys whose children are leaves
WideObjects == UNION {{Obj(f) : f \in [D -> Leaves]} : D \in SUBSET MergeKeys}

RECURSIVE SchemaUniverse(_)
SchemaUniverse(d) ==
    IF d = 0 THEN Leaves
    ELSE LET S == SchemaUniverse(d - 1)
         IN  S \cup WideObjects \cup {Arr(x) : x \in S}
               \cup {Obj(k :> x) : k \in MergeKeys, x \in S}

Schemas == SchemaUniverse(MaxSchemaDepth)

NoValue == Leaf("")

-----------------------------------------------------------------------------
(* The state outside the inference engine, as constructed *)

\* Config.__init__: self.preserve_fields
Config_preserve_fields ==
    {"status", "message", "transId", "entity", "id",
     "requiredRenewal", "isExpired", "isActive", "isSmart", "isKlasi", "isRiziko",
     "isCopyPolicyDoc", "isPaila", "isIndependent", "isNew",
     "sign", "eSite", "totalPayments", "paymentNo",
     "yieldBeginningYear", "lastDeposit", "depositedThisYear", "availableWithdraw",
     "withdrawDate", "yieldFromYearBeginningTotal",
     "fromDeposit", "fromSaving", "yieldUpdateDate", "dailyYieldUpdateDate",
     "hasProfitsShare", "updateTo", "dailyUpdateTo", "tsuotPopup"}

\* Config()
Config == [preserve_fields |-> Config_preserve_fields]

InitRest ==
    /\ history = <<>>
    /\ thread = EmptyMap
    /\ field_hint = ""
    /\ field_profiles = EmptyMap
    /\ example_prob = DefaultExampleProb
    /\ config = Config
    /\ _generators = EmptyMap
    /\ saved_records = <<>>
    /\ validation_errors = <<>>
    /\ insurance_type = ""
    /\ num_records = 1

-----------------------------------------------------------------------------
(* Specification of the Merger: one call of each implementation *)

InitMerge ==
    /\ pc = "call"
    /\ structure1 \in Schemas
    /\ structure2 \in Schemas
    /\ obj = PyNone
    /\ max_depth = 0
    /\ structure = NoValue
    /\ examples = <<>>
    /\ cache_key = PyNone
    /\ cache = EmptyMap
    /\ cache_hit = FALSE
    /\ result = NoValue
    /\ InitRest

CallMergeStructures ==
    /\ pc = "call"
    /\ pc' = "merge_structures"
    /\ result' = merge_structures(structure1, structure2)
    /\ UNCHANGED <<structure1, structure2, obj, max_depth, structure, examples, cache_key,
                   cache, cache_hit>>
    /\ UNCHANGED restVars

CallMockDataGeneratorMerge ==
    /\ pc = "call"
    /\ pc' = "MockDataGenerator._merge_structures"
    /\ result' = MockDataGenerator_merge_structures(structure1, structure2)
    /\ UNCHANGED <<structure1, structure2, obj, max_depth, structure, examples, cache_key,
                   cache, cache_hit>>
    /\ UNCHANGED restVars

NextMerge == CallMergeStructures \/ CallMockDataGeneratorMerge

SpecMerge == InitMerge /\ [][NextMerge]_vars

-----------------------------------------------------------------------------
(* SchemaAnalyzer._analyze_structure *)

\* isinstance(o, cls): bool is a subclass of int
isinstance(o, classes) ==
    \/ o.t \in classes
    \/ o.t = "bool" /\ "int" \in classes

\* the exception a failed sub-call propagates
Propagated(rs) == CHOOSE r \in rs : IsRaise(r)

\* merged_items = item_structures[0]; for s in item_structures[1:]:
\*     merged_items = self._merge_structures(merged_items, s)
RECURSIVE _fold_item_structures(_, _)
_fold_item_structures(item_structures, n) ==
    IF n = 1 THEN item_structures[1]
    ELSE LET merged_items == _fold_item_structures(item_structures, n - 1)
         IN  IF IsRaise(merged_items) THEN merged_items
             ELSE _merge_structures(merged_items, item_structures[n])

RECURSIVE _analyze_structure(_, _)

\* the slip "an empty list gives an Array node without items"
_analyze_structure_BareArray(o, depth) ==
    IF depth <= 0 THEN Leaf("string")
    ELSE IF isinstance(o, {"dict"})
    THEN LET props == [key \in DOMAIN o.fields |-> _analyze_structure(o.fields[key], depth - 1)]
         IN  IF \E key \in DOMAIN props : IsRaise(props[key])
             THEN Propagated({props[key] : key \in DOMAIN props})
             ELSE Obj(props)
    ELSE IF isinstance(o, {"list"})
    THEN IF o.items # <<>>
         THEN LET item_structures ==
                      [i \in DOMAIN o.items |-> _analyze_structure(o.items[i], depth - 1)]
              IN  IF \E i \in DOMAIN item_structures : IsRaise(item_structures[i])
                  THEN Propagated({item_structures[i] : i \in DOMAIN item_structures})
                  ELSE LET merged_items ==
                               _fold_item_structures(item_structures, Len(item_structures))
                       IN  IF IsRaise(merged_items) THEN merged_items ELSE Arr(merged_items)
         ELSE Leaf("array")
    ELSE IF isinstance(o, {"bool"}) THEN Leaf("boolean")
    ELSE IF isinstance(o, {"int", "float"}) THEN Leaf("number")
    ELSE IF isinstance(o, {"str"}) THEN Leaf("string")
    ELSE Leaf("string")

_analyze_structure(o, depth) ==
    IF depth <= 0 THEN Leaf("string")
    ELSE IF isinstance(o, {"dict"})
    THEN LET props == [key \in DOMAIN o.fields |-> _analyze_structure(o.fields[key], depth - 1)]
         IN  IF \E key \in DOMAIN props : IsRaise(props[key])
             THEN Propagated({props[key] : key \in DOMAIN props})
             ELSE Obj(props)
    ELSE IF isinstance(o, {"list"})
    THEN IF o.items # <<>>
         THEN LET item_structures ==
                      [i \in DOMAIN o.items |-> _analyze_structure(o.items[i], depth - 1)]
              IN  IF \E i \in DOMAIN item_structures : IsRaise(item_structures[i])
                  THEN Propagated({item_structures[i] : i \in DOMAIN item_structures})
                  ELSE LET merged_items ==
                               _fold_item_structures(item_structures, Len(item_structures))
                       IN  IF IsRaise(merged_items) THEN merged_items ELSE Arr(merged_items)
         ELSE Arr(Obj(EmptyMap))
    ELSE IF isinstance(o, {"bool"}) THEN Leaf("boolean")
    ELSE IF isinstance(o, {"int", "float"}) THEN Leaf("number")
    ELSE IF isinstance(o, {"str"}) THEN Leaf("string")
    ELSE Leaf("string")

-----------------------------------------------------------------------------
(* MockDataGenerator._analyze_structure *)

RECURSIVE MockDataGenerator_fold_item_structures(_, _)
MockDataGenerator_fold_item_structures(item_structures, n) ==
    IF n = 1 THEN item_structures[1]
    ELSE MockDataGenerator_merge_structures(
             MockDataGenerator_fold_item_structures(item_structures, n - 1),
             item_structures[n])

RECURSIVE MockDataGenerator_analyze_structure(_, _)
MockDataGenerator_analyze_structure(o, depth) ==
    IF depth <= 0 THEN Leaf("string")
    ELSE IF isinstance(o, {"dict"})
    THEN Obj([key \in DOMAIN o.fields |->
                 MockDataGenerator_analyze_structure(o.fields[key], depth - 1)])
    ELSE IF isinstance(o, {"list"})
    THEN IF o.items # <<>>
         THEN LET item_structures ==
                      [i \in DOMAIN o.items |->
                          MockDataGenerator_analyze_structure(o.items[i], depth - 1)]
              IN  Arr(MockDataGenerator_fold_item_structures(item_structures,
                                                             Len(item_structures)))
         ELSE Arr(Obj(EmptyMap))
    ELSE IF isinstance(o, {"bool"}) THEN Leaf("boolean")
    ELSE IF isinstance(o, {"int", "float"}) THEN Leaf("number")
    ELSE IF isinstance(o, {"str"}) THEN Leaf("string")
    ELSE Leaf("string")

\* MockDataGenerator._analyze_entity_structure, lines 189-195: the analysis
\* of the first response merged with the analyses of the others, in order
RECURSIVE MockDataGenerator_base_structure(_, _)
MockDataGenerator_base_structure(all_responses, n) ==
    IF n = 1 THEN MockDataGenerator_analyze_structure(all_responses[1], DefaultMaxDepth)
    ELSE MockDataGenerator_merge_structures(
             MockDataGenerator_base_structure(all_responses, n - 1),
             MockDataGenerator_analyze_structure(all_responses[n], DefaultMaxDepth))

-----------------------------------------------------------------------------
(* Inputs of the analysis specification *)

AnalyzeKeys == {"a", "b"}

Scalars == {PyNone, PyBool(1), PyInt(1), PyFloat(1), PyStr("A")}

\* lists of at most two scalars
FlatLists == {PyList(<<>>)} \cup {PyList(<<x>>) : x \in Scalars}
                 \cup {PyList(<<x, y>>) : x, y \in Scalars}

\* every dict over AnalyzeKeys whose values are scalars
FlatDicts == UNION {{PyDict(f) : f \in [D -> Scalars]} : D \in SUBSET AnalyzeKeys}

\* what the second element of a two-element list may be
SecondItems == Scalars \cup {PyDict(k :> x) : k \in AnalyzeKeys, x \in Scalars}

RECURSIVE ValueUniverse(_)
ValueUniverse(d) ==
    IF d = 0 THEN Scalars
    ELSE LET S == ValueUniverse(d - 1)
         IN  S \cup FlatLists \cup FlatDicts
               \cup {PyList(<<x>>) : x \in S}
               \cup {PyList(<<x, y>>) : x \in S, y \in SecondItems}
               \cup {PyDict(k :> x) : k \in AnalyzeKeys, x \in S}

\* n containers around a scalar: dicts, lists, or the two alternating
RECURSIVE Chain(_, _)
Chain(n, shape) ==
    IF n = 0 THEN PyInt(1)
    ELSE IF shape = "dict" \/ (shape = "mixed" /\ n % 2 = 0)
    THEN PyDict("a" :> Chain(n - 1, shape))
    ELSE PyList(<<Chain(n - 1, shape)>>)

DeepValues == {Chain(ChainDepth, shape) : shape \in {"dict", "list", "mixed"}}

AnalyzeValues == ValueUniverse(MaxValueDepth) \cup DeepValues

Budgets == 0 .. MaxBudget \cup {DefaultMaxDepth}

-----------------------------------------------------------------------------
(* Specification of the Analyzer: one call of _analyze_structure *)

InitAnalyze ==
    /\ pc = "call"
    /\ obj \in AnalyzeValues
    /\ max_depth \in Budgets
    /\ structure1 = NoValue
    /\ structure2 = NoValue
    /\ structure = NoValue
    /\ examples = <<>>
    /\ cache_key = PyNone
    /\ cache = EmptyMap
    /\ cache_hit = FALSE
    /\ result = NoValue
    /\ InitRest

CallAnalyzeStructure ==
    /\ pc = "call"
    /\ pc' = "_analyze_structure"
    /\ result' = _analyze_structure(obj, max_depth)
    /\ UNCHANGED <<structure1, structure2, obj, max_depth, structure, examples, cache_key,
                   cache, cache_hit>>
    /\ UNCHANGED restVars

CallMockDataGeneratorAnalyze ==
    /\ pc = "call"
    /\ pc' = "MockDataGenerator._analyze_structure"
    /\ result' = MockDataGenerator_analyze_structure(obj, max_depth)
    /\ UNCHANGED <<structure1, structure2, obj, max_depth, structure, examples, cache_key,
                   cache, cache_hit>>
    /\ UNCHANGED restVars

NextAnalyze == CallAnalyzeStructure \/ CallMockDataGeneratorAnalyze

SpecAnalyze == InitAnalyze /\ [][NextAnalyze]_vars

-----------------------------------------------------------------------------
(* SchemaAnalyzer: preservation *)

\* the preserve_fields literal of _should_preserve_field
preserve_fields ==
    {"status", "message", "transId", "entity",
     "id",
     "requiredRenewal", "isExpired", "isActive", "isSmart", "isKlasi", "isRiziko",
     "isCopyPolicyDoc", "isPaila", "isIndependent", "isNew",
     "sign",
     "eSite",
     "totalPayments",
     "paymentNo",
     "yieldBeginningYear", "lastDeposit", "depositedThisYear", "availableWithdraw",
     "withdrawDate", "yieldFromYearBeginningTotal",
     "fromDeposit", "fromSaving", "yieldUpdateDate", "dailyYieldUpdateDate",
     "hasProfitsShare", "updateTo", "dailyUpdateTo", "tsuotPopup"}

_should_preserve_field(field_name) == field_name \in preserve_fields

\* Python's == on JSON-like values: bool, int and float compare by number
RECURSIVE PyEq(_, _)
PyEq(a, b) ==
    IF isinstance(a, {"int", "float"}) /\ isinstance(b, {"int", "float"}) THEN a.v = b.v
    ELSE IF a.t # b.t THEN FALSE
    ELSE IF a.t = "str" THEN a.s = b.s
    ELSE IF a.t = "list"
    THEN Len(a.items) = Len(b.items) /\ \A i \in DOMAIN a.items : PyEq(a.items[i], b.items[i])
    ELSE IF a.t = "dict"
    THEN DOMAIN a.fields = DOMAIN b.fields
             /\ \A k \in DOMAIN a.fields : PyEq(a.fields[k], b.fields[k])
    ELSE TRUE

\* value in values
PyIn(value, values) == \E i \in DOMAIN values : PyEq(values[i], value)

\* the loop of _extract_original_values over the first n examples
RECURSIVE _extract_original_values_loop(_, _, _)

\* the slip "values.append(value) without the membership test"
_extract_original_values_loop_NoDedup(field_name, exs, n) ==
    IF n = 0 THEN <<>>
    ELSE LET values == _extract_original_values_loop(field_name, exs, n - 1)
             example == exs[n]
         IN  IF isinstance(example, {"dict"}) /\ field_name \in DOMAIN example.fields
             THEN Append(values, example.fields[field_name])
             ELSE values

_extract_original_values_loop(field_name, exs, n) ==
    IF n = 0 THEN <<>>
    ELSE LET values == _extract_original_values_loop(field_name, exs, n - 1)
             example == exs[n]
         IN  IF isinstance(example, {"dict"}) /\ field_name \in DOMAIN example.fields
             THEN LET value == example.fields[field_name]
                  IN  IF ~PyIn(value, values) THEN Append(values, value) ELSE values
             ELSE values

\* the slip "a field no example has is given the value None"
_extract_original_values_NoneDefault(field_name, exs) ==
    IF _extract_original_values_loop(field_name, exs, Len(exs)) = <<>>
    THEN <<PyNone>>
    ELSE _extract_original_values_loop(field_name, exs, Len(exs))
_extract_original_values(field_name, exs) ==
    _extract_original_values_loop(field_name, exs, Len(exs))

\* the slip "an example without a mapping at the field stands in for it"
_extract_nested_value_Fallback(o, field_name) ==
    IF isinstance(o, {"dict"})
    THEN (IF field_name \in DOMAIN o.fields /\ isinstance(o.fields[field_name], {"dict"})
          THEN o.fields[field_name]
          ELSE o)
    ELSE PyNone

_extract_nested_value(o, field_name) ==
    IF isinstance(o, {"dict"})
    THEN (IF field_name \in DOMAIN o.fields THEN o.fields[field_name] ELSE PyNone)
    ELSE PyNone

\* nested_examples: the non-None values of the field, example by example
nested_examples_of(field_name, exs) ==
    SelectSeq([i \in DOMAIN exs |-> _extract_nested_value(exs[i], field_name)],
              LAMBDA ex : ex.t # "NoneType")

\* array_examples: the lists found at the field, concatenated
RECURSIVE array_examples_of(_, _, _)
array_examples_of(field_name, exs, n) ==
    IF n = 0 THEN <<>>
    ELSE LET array_value == _extract_nested_value(exs[n], field_name)
             before == array_examples_of(field_name, exs, n - 1)
         IN  IF isinstance(array_value, {"list"}) THEN before \o array_value.items ELSE before

\* _add_preserved_field_info mutates structure in place; the operator gives
\* the structure as it is when the call returns.
RECURSIVE _add_preserved_field_info(_, _)
\* the slip "a marked property's node is replaced by a new dict that holds
\* the annotation only"
_add_preserved_field_info_Replace(s, exs) ==
    IF GetType(s) = "object"
    THEN LET properties == GetProperties(s)
             annotated(field_name) ==
                 LET field_structure == properties[field_name]
                     original_values == _extract_original_values(field_name, exs)
                     marked ==
                         IF _should_preserve_field(field_name)
                         THEN IF original_values # <<>>
                              THEN [field_structure EXCEPT
                                       !.keys = {"preserve_original", "original_values"},
                                       !.preserve_original = TRUE,
                                       !.original_values = original_values]
                              ELSE [field_structure EXCEPT
                                       !.keys = {"preserve_original"},
                                       !.preserve_original = TRUE]
                         ELSE field_structure
                 IN  IF GetType(marked) = "object"
                     THEN LET nested_examples == nested_examples_of(field_name, exs)
                          IN  IF nested_examples # <<>>
                              THEN _add_preserved_field_info(marked, nested_examples)
                              ELSE marked
                     ELSE IF GetType(marked) = "array"
                     THEN LET array_examples == array_examples_of(field_name, exs, Len(exs))
                          IN  IF array_examples # <<>> /\ "items" \in marked.keys
                              THEN [marked EXCEPT !.items =
                                       <<_add_preserved_field_info(marked.items[1], array_examples)>>]
                              ELSE marked
                     ELSE marked
         IN  IF "properties" \in s.keys
             THEN [s EXCEPT !.properties = [f \in DOMAIN properties |-> annotated(f)]]
             ELSE s
    ELSE IF GetType(s) = "array"
    THEN IF exs # <<>> /\ "items" \in s.keys
         THEN [s EXCEPT !.items = <<_add_preserved_field_info(s.items[1], exs)>>]
         ELSE s
    ELSE s

_add_preserved_field_info(s, exs) ==
    IF GetType(s) = "object"
    THEN LET properties == GetProperties(s)
             annotated(field_name) ==
                 LET field_structure == properties[field_name]
                     original_values == _extract_original_values(field_name, exs)
                     marked ==
                         IF _should_preserve_field(field_name)
                         THEN IF original_values # <<>>
                              THEN [field_structure EXCEPT
                                       !.keys = @ \cup {"preserve_original", "original_values"},
                                       !.preserve_original = TRUE,
                                       !.original_values = original_values]
                              ELSE [field_structure EXCEPT
                                       !.keys = @ \cup {"preserve_original"},
                                       !.preserve_original = TRUE]
                         ELSE field_structure
                 IN  IF GetType(marked) = "object"
                     THEN LET nested_examples == nested_examples_of(field_name, exs)
                          IN  IF nested_examples # <<>>
                              THEN _add_preserved_field_info(marked, nested_examples)
                              ELSE marked
                     ELSE IF GetType(marked) = "array"
                     THEN LET array_examples == array_examples_of(field_name, exs, Len(exs))
                          IN  IF array_examples # <<>> /\ "items" \in marked.keys
                              THEN [marked EXCEPT !.items =
                                       <<_add_preserved_field_info(marked.items[1], array_examples)>>]
                              ELSE marked
                     ELSE marked
         IN  IF "properties" \in s.keys
             THEN [s EXCEPT !.properties = [f \in DOMAIN properties |-> annotated(f)]]
             ELSE s
    ELSE IF GetType(s) = "array"
    THEN IF exs # <<>> /\ "items" \in s.keys
         THEN [s EXCEPT !.items = <<_add_preserved_field_info(s.items[1], exs)>>]
         ELSE s
    ELSE s

-----------------------------------------------------------------------------
(* Inputs of the annotation specification *)

StatusValues == {PyStr("active"), PyStr("pending"), PyBool(1), PyInt(1), PyNone}

ExampleDocs ==
    {PyDict("status" :> v) : v \in StatusValues}
      \cup {PyDict("name" :> PyStr("active")),
            PyDict(EmptyMap),
            PyStr("active"),
            PyDict(("status" :> PyStr("active")) @@ ("child" :> PyDict("status" :> PyStr("pending")))),
            PyDict(("status" :> PyStr("pending")) @@ ("child" :> PyStr("active"))),
            PyDict("child" :> PyList(<<PyDict("status" :> PyStr("active")),
                                       PyDict("status" :> PyInt(1))>>)),
            PyDict("child" :> PyList(<<PyList(<<PyDict("status" :> PyStr("active"))>>),
                                       PyDict("status" :> PyStr("pending"))>>))}

RECURSIVE SeqsUpTo(_, _)
SeqsUpTo(S, n) ==
    IF n = 0 THEN {<<>>}
    ELSE LET shorter == SeqsUpTo(S, n - 1)
         IN  shorter \cup {Append(q, x) : q \in shorter, x \in S}

AnnotateSchemas ==
    {Obj("status" :> Leaf("string")),
     Obj(("status" :> Leaf("string")) @@ ("name" :> Leaf("string"))),
     Obj(("status" :> Leaf("string")) @@ ("child" :> Obj("status" :> Leaf("string")))),
     Obj("child" :> Arr(Obj("status" :> Leaf("string")))),
     Obj("status" :> Obj("status" :> Leaf("boolean"))),
     Arr(Obj("status" :> Leaf("string")))}

-----------------------------------------------------------------------------
(* Specification of the Annotator: one call of _add_preserved_field_info *)

\* the schema is hand-made, as in the unit tests, or the one the analysis and
\* fold of the examples give
InitAnnotate ==
    /\ pc = "call"
    /\ examples \in SeqsUpTo(ExampleDocs, MaxExamples)
    /\ structure \in AnnotateSchemas \cup
           (IF examples = <<>> THEN {}
            ELSE {MockDataGenerator_base_structure(examples, Len(examples))})
    /\ structure1 = NoValue
    /\ structure2 = NoValue
    /\ obj = PyNone
    /\ max_depth = 0
    /\ cache_key = PyNone
    /\ cache = EmptyMap
    /\ cache_hit = FALSE
    /\ result = NoValue
    /\ InitRest

CallAddPreservedFieldInfo ==
    /\ pc = "call"
    /\ pc' = "_add_preserved_field_info"
    /\ result' = _add_preserved_field_info(structure, examples)
    /\ UNCHANGED <<structure1, structure2, obj, max_depth, structure, examples, cache_key,
                   cache, cache_hit>>
    /\ UNCHANGED restVars

NextAnnotate == CallAddPreservedFieldInfo

SpecAnnotate == InitAnnotate /\ [][NextAnnotate]_vars

-----------------------------------------------------------------------------
(* SchemaCache and SchemaAnalyzer.analyze_structure *)

\* SchemaCache.get_schema: self._cache.get(key); None when the key is absent
get_schema(c, key) == IF key \in DOMAIN c THEN c[key] ELSE PyNone

\* a lookup that never finds the key
HasSchema_Never(c, key) == FALSE

\* cached is not None
HasSchema(c, key) == get_schema(c, key) # PyNone

\* a set_schema that keeps the entry a key already has
set_schema_KeepFirst(c, key, schema) ==
    [k \in DOMAIN c \cup {key} |-> IF k \in DOMAIN c THEN c[k] ELSE schema]

\* SchemaCache.set_schema: self._cache[key] = schema
set_schema(c, key, schema) == [k \in DOMAIN c \cup {key} |-> IF k = key THEN schema ELSE c[k]]

\* the characters of the model's strings, as numbers
StringCode(x) ==
    CASE x = "" -> 0
      [] x = "A" -> 1
      [] x = "B" -> 2
      [] x = "id" -> 3
      [] x = "child" -> 4
      [] x = "name" -> 5
      [] x = "xs" -> 6
      [] OTHER -> 7

\* the keys of a dict in the order str() prints them
RECURSIVE KeyOrder(_)
KeyOrder(K) ==
    IF K = {} THEN <<>>
    ELSE LET k == CHOOSE x \in K : \A y \in K : StringCode(x) <= StringCode(y)
         IN  <<k>> \o KeyOrder(K \ {k})

\* str(value) as a sequence of character codes: None, True/False, digits,
\* ".0" of a float, quotes, brackets, braces, commas and colons
RECURSIVE str(_)
RECURSIVE str_join(_, _)
str_join(values, n) ==
    IF n = 0 THEN <<>>
    ELSE IF n = 1 THEN str(values[1])
    ELSE str_join(values, n - 1) \o <<20>> \o str(values[n])

str(value) ==
    CASE value.t = "NoneType" -> <<10>>
      [] value.t = "bool" -> <<11 + value.v>>
      [] value.t = "int" -> <<13, value.v>>
      [] value.t = "float" -> <<13, value.v, 14>>
      [] value.t = "str" -> <<15, StringCode(value.s), 15>>
      [] value.t = "list" -> <<16>> \o str_join(value.items, Len(value.items)) \o <<17>>
      [] value.t = "dict" ->
            LET order == KeyOrder(DOMAIN value.fields)
                entries == [i \in DOMAIN order |->
                               PyList(<<PyStr(order[i]), value.fields[order[i]]>>)]
            IN  <<18>> \o str_join(entries, Len(entries)) \o <<19>>

\* hash(text): a multiplicative hash of the characters, HashBits wide
RECURSIVE hash(_)
hash(text) ==
    IF text = <<>> THEN 0
    ELSE (hash(SubSeq(text, 1, Len(text) - 1)) * 31 + text[Len(text)]) % (2 ^ HashBits)

\* base_structure after the loop over examples[1:] (n examples folded)
RECURSIVE base_structure_of(_, _)
base_structure_of(exs, n) ==
    IF n = 1 THEN _analyze_structure(exs[1], DefaultMaxDepth)
    ELSE LET base_structure == base_structure_of(exs, n - 1)
             analysed == _analyze_structure(exs[n], DefaultMaxDepth)
         IN  IF IsRaise(base_structure) THEN base_structure
             ELSE IF IsRaise(analysed) THEN analysed
             ELSE _merge_structures(base_structure, analysed)

-----------------------------------------------------------------------------
(* Inputs of the pipeline specification *)

PipelineDocs ==
    {PyDict(("id" :> PyStr("A")) @@ ("child" :> PyDict("id" :> PyStr("B")))),
     PyList(<<PyDict("id" :> PyStr("A"))>>),
     PyDict("id" :> PyStr("B")),
     PyDict("xs" :> PyList(<<PyDict("id" :> PyStr("A"))>>))}

Corpora == SeqsUpTo(PipelineDocs, MaxCorpus)

CacheKeyArgs == {PyNone, PyStr(""), PyStr("k1")}

\* str(hash(str(examples))) of every corpus of the model
Fingerprints == [exs \in Corpora |-> ToString(hash(str(PyList(exs))))]

\* key = cache_key or str(hash(str(examples)))
derived_key(exs, key_arg) ==
    IF key_arg.t = "str" /\ key_arg.s # "" THEN key_arg.s ELSE Fingerprints[exs]

\* lines 43-48 on every corpus of the model: analyse, fold, annotate
Inferred ==
    [exs \in Corpora \ {<<>>} |->
        LET base_structure == base_structure_of(exs, Len(exs))
        IN  IF IsRaise(base_structure) THEN base_structure
            ELSE _add_preserved_field_info(base_structure, exs)]

\* the schemas that calls with cache_key = k, on a corpus whose emptiness is
\* in E, have returned
Returned(h, k, E) ==
    {h[i].value : i \in {j \in DOMAIN h : h[j].key = k /\ h[j].empty \in E}}

\* the history after a call: the first schema returned for each cache_key
\* the callers name ("" names none: cache_key or ...), for the empty corpus
\* and for the others
Recorded(h, key_arg, exs, returned) ==
    IF key_arg.t = "str" /\ key_arg.s # "" /\ ~IsRaise(returned)
          /\ Returned(h, key_arg.s, {exs = <<>>}) = {}
    THEN Append(h, [op |-> "analyze_structure", key |-> key_arg.s, empty |-> (exs = <<>>),
                    value |-> returned])
    ELSE h

-----------------------------------------------------------------------------
(* Specification of the pipeline: calls of analyze_structure on one         *)
(* SchemaAnalyzer, whose SchemaCache lives as long as the process           *)

Init ==
    /\ pc = "call"
    /\ structure1 = NoValue
    /\ structure2 = NoValue
    /\ obj = PyNone
    /\ max_depth = 0
    /\ structure = NoValue
    /\ examples = <<>>
    /\ cache_key = PyNone
    /\ cache = EmptyMap
    /\ cache_hit = FALSE
    /\ result = NoValue
    /\ InitRest

\* analyze_structure without the early return of lines 39-41: every call on a
\* non-empty corpus infers and stores
analyze_structure_Overwrite(exs, key_arg) ==
    /\ pc' = "analyze_structure"
    /\ examples' = exs
    /\ cache_key' = key_arg
    /\ IF exs = <<>>
       THEN /\ result' = Obj(EmptyMap)
            /\ cache_hit' = FALSE
            /\ cache' = cache
       ELSE LET key == derived_key(exs, key_arg)
            IN  /\ IsRaise(Inferred[exs]) \/ Cardinality(DOMAIN cache \cup {key}) <= MaxCacheEntries
                /\ result' = Inferred[exs]
                /\ cache_hit' = FALSE
                /\ cache' = IF IsRaise(Inferred[exs]) THEN cache
                            ELSE set_schema(cache, key, Inferred[exs])
    /\ history' = Recorded(history, key_arg, exs, result')
    /\ UNCHANGED <<structure1, structure2, obj, max_depth, structure>>
    /\ UNCHANGED <<thread, field_hint, field_profiles, example_prob, config, _generators,
                   saved_records, validation_errors, insurance_type, num_records>>

analyze_structure(exs, key_arg) ==
    /\ pc' = "analyze_structure"
    /\ examples' = exs
    /\ cache_key' = key_arg
    /\ IF exs = <<>>
       THEN /\ result' = Obj(EmptyMap)
            /\ cache_hit' = FALSE
            /\ cache' = cache
       ELSE LET key == derived_key(exs, key_arg)
            IN  IF HasSchema(cache, key)
                THEN /\ result' = get_schema(cache, key)
                     /\ cache_hit' = TRUE
                     /\ cache' = cache
                ELSE /\ IsRaise(Inferred[exs]) \/ Cardinality(DOMAIN cache) < MaxCacheEntries
                     /\ result' = Inferred[exs]
                     /\ cache_hit' = FALSE
                     /\ cache' = IF IsRaise(Inferred[exs]) THEN cache
                                 ELSE set_schema(cache, key, Inferred[exs])
    /\ history' = Recorded(history, key_arg, exs, result')
    /\ UNCHANGED <<structure1, structure2, obj, max_depth, structure>>
    /\ UNCHANGED <<thread, field_hint, field_profiles, example_prob, config, _generators,
                   saved_records, validation_errors, insurance_type, num_records>>

Next == \E exs \in Corpora, key_arg \in CacheKeyArgs : analyze_structure(exs, key_arg)

Spec == Init /\ [][Next]_vars

-----------------------------------------------------------------------------
(* Specification of the Schema Cache: set_schema and get_schema on one     *)
(* SchemaCache; history is the sequence of set_schema calls made           *)

CacheKeys == {"travel", "life"}

CacheSchemas == {Leaf("object"), Leaf("string"), Obj("id" :> Leaf("string"))}

InitCache ==
    /\ pc = "call"
    /\ structure1 = NoValue
    /\ structure2 = NoValue
    /\ obj = PyNone
    /\ max_depth = 0
    /\ structure = NoValue
    /\ examples = <<>>
    /\ cache_key = PyNone
    /\ cache = EmptyMap
    /\ cache_hit = FALSE
    /\ result = NoValue
    /\ InitRest

CallSetSchema(key, schema) ==
    /\ Len(history) < MaxCalls
    /\ pc' = "set_schema"
    /\ cache_key' = PyStr(key)
    /\ structure' = schema
    /\ cache' = set_schema(cache, key, schema)
    /\ result' = PyNone
    /\ history' = Append(history, [op |-> "set_schema", key |-> key, value |-> schema])
    /\ UNCHANGED <<structure1, structure2, obj, max_depth, examples, cache_hit>>
    /\ UNCHANGED <<thread, field_hint, field_profiles, example_prob, config, _generators,
                   saved_records, validation_errors, insurance_type, num_records>>

CallGetSchema(key) ==
    /\ pc' = "get_schema"
    /\ cache_key' = PyStr(key)
    /\ result' = get_schema(cache, key)
    /\ UNCHANGED <<structure1, structure2, obj, max_depth, structure, examples, cache,
                   cache_hit>>
    /\ UNCHANGED restVars

NextCache ==
    \/ \E key \in CacheKeys, schema \in CacheSchemas : CallSetSchema(key, schema)
    \/ \E key \in CacheKeys : CallGetSchema(key)

SpecCache == InitCache /\ [][NextCache]_vars

-----------------------------------------------------------------------------
(* Specification of concurrent callers: threads inside analyze_structure   *)
(* of one SchemaAnalyzer; a step is one access to the shared SchemaCache   *)
(* or the inference a thread does on its own data between two accesses     *)

Threads == 1..MaxThreads

ThreadDocs == {PyDict("id" :> PyStr("B")), PyList(<<PyDict("id" :> PyStr("A"))>>)}

ThreadCorpora ==
    {<<>>} \cup {<<d>> : d \in ThreadDocs} \cup {<<d, d>> : d \in {PyDict("id" :> PyStr("B"))}}

ThreadKeyArgs == {PyNone, PyStr("k1")}

\* the frame of a thread: where it is in analyze_structure and its locals
Frame(at, exs, key, cached, base_structure, returned, analysed) ==
    [pc |-> at, examples |-> exs, key |-> key, cached |-> cached,
     base_structure |-> base_structure, result |-> returned, analysed |-> analysed]

IdleFrame == Frame("idle", <<>>, "", PyNone, NoValue, NoValue, FALSE)

InitThreads ==
    /\ pc = "call"
    /\ structure1 = NoValue
    /\ structure2 = NoValue
    /\ obj = PyNone
    /\ max_depth = 0
    /\ structure = NoValue
    /\ examples = <<>>
    /\ cache_key = PyNone
    /\ cache = EmptyMap
    /\ cache_hit = FALSE
    /\ result = NoValue
    /\ history = <<>>
    /\ thread = [t \in Threads |-> IdleFrame]
    /\ field_hint = ""
    /\ field_profiles = EmptyMap
    /\ example_prob = DefaultExampleProb
    /\ config = Config
    /\ _generators = EmptyMap
    /\ saved_records = <<>>
    /\ validation_errors = <<>>
    /\ insurance_type = ""
    /\ num_records = 1

\* lines 35-38: the empty corpus returns at once, otherwise the key is derived
ThreadCall(t, exs, key_arg) ==
    /\ thread[t].pc = "idle"
    /\ thread' = [thread EXCEPT ![t] =
                     IF exs = <<>>
                     THEN Frame("done", exs, "", PyNone, NoValue, Obj(EmptyMap), FALSE)
                     ELSE Frame("get_schema", exs, derived_key(exs, key_arg), PyNone, NoValue,
                                NoValue, FALSE)]
    /\ UNCHANGED <<pc, structure1, structure2, obj, max_depth, structure, examples, cache_key,
                   cache, cache_hit, result>>
    /\ UNCHANGED <<history, field_hint, field_profiles, example_prob, config, _generators,
                   saved_records, validation_errors, insurance_type, num_records>>

\* lines 39-41: cached = self.cache.get_schema(key); return it unless None
ThreadGetSchema(t) ==
    /\ thread[t].pc = "get_schema"
    /\ LET cached == get_schema(cache, thread[t].key)
       IN  thread' = [thread EXCEPT ![t] =
                         IF HasSchema(cache, thread[t].key)
                         THEN [@ EXCEPT !.pc = "done", !.cached = cached, !.result = cached]
                         ELSE [@ EXCEPT !.pc = "analyse"]]
    /\ UNCHANGED <<pc, structure1, structure2, obj, max_depth, structure, examples, cache_key,
                   cache, cache_hit, result>>
    /\ UNCHANGED <<history, field_hint, field_profiles, example_prob, config, _generators,
                   saved_records, validation_errors, insurance_type, num_records>>

\* lines 43-48: analyse, fold and annotate the thread's own corpus
ThreadAnalyse(t) ==
    /\ thread[t].pc = "analyse"
    /\ LET base_structure == Inferred[thread[t].examples]
       IN  thread' = [thread EXCEPT ![t] =
                         IF IsRaise(base_structure)
                         THEN [@ EXCEPT !.pc = "done", !.analysed = TRUE,
                                        !.result = base_structure]
                         ELSE [@ EXCEPT !.pc = "set_schema", !.analysed = TRUE,
                                        !.base_structure = base_structure]]
    /\ UNCHANGED <<pc, structure1, structure2, obj, max_depth, structure, examples, cache_key,
                   cache, cache_hit, result>>
    /\ UNCHANGED <<history, field_hint, field_profiles, example_prob, config, _generators,
                   saved_records, validation_errors, insurance_type, num_records>>

\* lines 49-50: self.cache.set_schema(key, base_structure); return base_structure
ThreadSetSchema(t) ==
    /\ thread[t].pc = "set_schema"
    /\ cache' = set_schema(cache, thread[t].key, thread[t].base_structure)
    /\ thread' = [thread EXCEPT ![t] = [@ EXCEPT !.pc = "done",
                                                 !.result = thread[t].base_structure]]
    /\ UNCHANGED <<pc, structure1, structure2, obj, max_depth, structure, examples, cache_key,
                   cache_hit, result>>
    /\ UNCHANGED <<history, field_hint, field_profiles, example_prob, config, _generators,
                   saved_records, validation_errors, insurance_type, num_records>>

NextThreads ==
    \E t \in Threads :
        \/ \E exs \in ThreadCorpora, key_arg \in ThreadKeyArgs : ThreadCall(t, exs, key_arg)
        \/ ThreadGetSchema(t)
        \/ ThreadAnalyse(t)
        \/ ThreadSetSchema(t)

SpecThreads == InitThreads /\ [][NextThreads]_vars

-----------------------------------------------------------------------------
(* MockDataGenerator.generate_mock_value and its helpers.  A call draws    *)
(* from random and Faker, so an operator gives the set of the values the   *)
(* call can return.                                                        *)

\* random.choice(values)
choice(values) == {values[i] : i \in DOMAIN values}

\* random.randint(a, b); the ends of the range stand for its draws
randint(a, b) == {PyInt(a), PyInt(b)}

\* round(random.uniform(a, b), 2); the ends of the range stand for its draws
uniform(a, b) == {PyFloat(a), PyFloat(b)}

\* field_name.lower(), on the field names of the model
lower(name) == IF name = "sumSaving" THEN "sumsaving" ELSE name

\* word in field_lower, on the words of the chains below and the lowered
\* field names of the model
Occurs(word, field_lower) ==
    <<word, field_lower>> \in {<<"status", "status">>, <<"value", "value">>,
                              <<"sum", "sumsaving">>, <<"currency", "currency">>}

\* any(word in field_lower for word in words)
any(words, field_lower) == \E word \in words : Occurs(word, field_lower)

\* _generate_mock_string: the first branch whose words occur in the name; the
\* branches after 'status' ('type' to 'youngerdriverage') have words that
\* occur in no field name of the model and are passed over
_generate_mock_string(name) ==
    LET field_lower == lower(name)
    IN  IF any({"name"}, field_lower) THEN {PyStr("faker.name()")}
        ELSE IF any({"email"}, field_lower) THEN {PyStr("faker.email()")}
        ELSE IF any({"phone"}, field_lower) THEN {PyStr("faker.phone_number()")}
        ELSE IF any({"date"}, field_lower) THEN {PyStr("faker.date()")}
        ELSE IF any({"policy"}, field_lower)
        THEN {PyStr("POL-" \o ToString(n)) : n \in {100000, 999999}}
        ELSE IF any({"currency"}, field_lower)
        THEN choice(<<PyStr("ILS"), PyStr("$"), PyStr("EUR"), PyStr("GBP")>>)
        ELSE IF any({"status"}, field_lower)
        THEN choice(<<PyStr("active"), PyStr("inactive"), PyStr("pending"), PyStr("expired")>>)
        ELSE IF name # ""
        THEN {PyStr("Mock_" \o name \o "_" \o ToString(n)) : n \in {1000, 9999}}
        ELSE {PyStr("faker.word()")}

\* _generate_mock_number
_generate_mock_number(name) ==
    LET field_lower == lower(name)
    IN  IF any({"amount", "sum", "value"}, field_lower) THEN uniform(1000, 1000000)
        ELSE IF any({"percent", "percentage"}, field_lower) THEN uniform(0, 100)
        ELSE IF any({"count", "number"}, field_lower) THEN randint(1, 100)
        ELSE IF any({"agent", "agentnumber"}, field_lower) THEN randint(10000, 99999)
        ELSE IF any({"beneficiaries", "beneficiariescount"}, field_lower) THEN randint(1, 10)
        ELSE IF any({"numsavingchannel", "num_saving_channel"}, field_lower)
        THEN randint(1, 20)
        ELSE IF any({"status"}, field_lower) THEN randint(0, 3)
        ELSE IF any({"year", "month", "day"}, field_lower) THEN randint(1, 31)
        ELSE randint(1, 1000)

\* the parents under which _generate_mock_object makes "value" and "currency"
\* itself
SavingFields ==
    {"sumsaving", "summonthchange", "accumulatechange", "totalsaving", "fluentwithdraw",
     "expectedforretirement", "savingexpectedforretirement", "savingsum", "fluentsum"}

\* the lists of length 1 to n over the set S
RECURSIVE ListsUpTo(_, _)
ListsUpTo(S, n) ==
    IF n = 1 THEN {<<x>> : x \in S}
    ELSE LET shorter == ListsUpTo(S, n - 1)
         IN  shorter \cup {Append(q, x) : q \in {r \in shorter : Len(r) = n - 1}, x \in S}

\* the mappings that take each key of outs to one of the values outs has for it
RECURSIVE Products(_)
Products(outs) ==
    IF DOMAIN outs = {} THEN {EmptyMap}
    ELSE LET k == CHOOSE x \in DOMAIN outs : TRUE
             rest == [p \in DOMAIN outs \ {k} |-> outs[p]]
         IN  {(k :> v) @@ m : v \in outs[k], m \in Products(rest)}

\* schema.get("preserve_original", False) and a non-empty original_values
HasOriginalValues(schema) == schema.preserve_original /\ schema.original_values # <<>>

RECURSIVE generate_mock_value(_, _)
RECURSIVE _generate_mock_array(_, _)
RECURSIVE _generate_mock_object(_, _)

\* a generate_mock_value that does not look at preserve_original
generate_mock_value_NoPreserve(schema, name) ==
    LET schema_type == IF "type" \in schema.keys THEN schema.type ELSE "string"
    IN  CASE schema_type = "string" -> _generate_mock_string(name)
          [] schema_type = "number" -> _generate_mock_number(name)
          [] schema_type = "boolean" -> choice(<<PyBool(1), PyBool(0)>>)
          [] schema_type = "array" -> _generate_mock_array(schema, name)
          [] schema_type = "object" -> _generate_mock_object(schema, name)
          [] OTHER -> _generate_mock_string(name)

generate_mock_value(schema, name) ==
    IF HasOriginalValues(schema)
    THEN choice(schema.original_values)
    ELSE LET schema_type == IF "type" \in schema.keys THEN schema.type ELSE "string"
         IN  CASE schema_type = "string" -> _generate_mock_string(name)
               [] schema_type = "number" -> _generate_mock_number(name)
               [] schema_type = "boolean" -> choice(<<PyBool(1), PyBool(0)>>)
               [] schema_type = "array" -> _generate_mock_array(schema, name)
               [] schema_type = "object" -> _generate_mock_object(schema, name)
               [] OTHER -> _generate_mock_string(name)

\* random.randint(1, 5) items, each from the items schema under the array's name
_generate_mock_array(schema, name) ==
    LET items_schema == GetItems(schema, Leaf("string"))
    IN  {PyList(xs) : xs \in ListsUpTo(generate_mock_value(items_schema, name), MaxArrayLength)}

\* a _generate_mock_object that hands the parent's name down as the hint
_generate_mock_object_ParentHint(schema, name) ==
    LET properties == GetProperties(schema)
    IN  {PyDict(f) : f \in Products([prop_name \in DOMAIN properties |->
                                       generate_mock_value(properties[prop_name], name)])}

_generate_mock_object(schema, name) ==
    LET properties == GetProperties(schema)
        mock(prop_name) ==
            LET prop_schema == properties[prop_name]
            IN  IF HasOriginalValues(prop_schema) THEN choice(prop_schema.original_values)
                ELSE IF prop_name = "value" /\ lower(name) \in SavingFields
                THEN uniform(1000, 1000000)
                ELSE IF prop_name = "currency" /\ lower(name) \in SavingFields
                THEN choice(<<PyStr("ILS"), PyStr("$"), PyStr("EUR"), PyStr("GBP")>>)
                ELSE IF prop_name = "sign" /\ lower(name) \in {"monthchange"}
                THEN {PyStr("%")}
                ELSE IF prop_name = "status" /\ lower(name) \in {"status"}
                THEN randint(0, 3)
                ELSE IF prop_name = "statusDesc" /\ lower(name) \in {"status"}
                THEN choice(<<PyStr("Active"), PyStr("Inactive"), PyStr("Pending"),
                              PyStr("Expired")>>)
                ELSE generate_mock_value(prop_schema, prop_name)
    IN  {PyDict(f) : f \in Products([prop_name \in DOMAIN properties |-> mock(prop_name)])}

\* random.random(), in tenths: 0.0 <= x < 1.0
random == 0..9

\* VehicleUnitedGenerator._pick_example_or_faker, faker_func given by the
\* values it can return
_pick_example_or_faker(profiles, prob, field_key, faker_func) ==
    LET values == IF field_key \in DOMAIN profiles THEN profiles[field_key] ELSE <<>>
    IN  UNION {IF values # <<>> /\ x < prob THEN choice(values) ELSE faker_func : x \in random}

-----------------------------------------------------------------------------
(* Inputs of the synthesis specification *)

FieldNames == {"", "id", "status", "value", "sumSaving", "child"}

\* a node as the Annotator marks it
Marked(node, values) ==
    [node EXCEPT !.keys = @ \cup (IF values # <<>> THEN {"preserve_original", "original_values"}
                                  ELSE {"preserve_original"}),
                 !.preserve_original = TRUE,
                 !.original_values = values]

\* hand-made schemas: leaves, marked nodes with and without values, objects
\* and arrays, the pairs _generate_mock_object treats itself, and nodes that
\* lack "properties", "items" or a known "type"
SynthSchemas ==
    {Leaf("string"), Leaf("number"), Leaf("boolean"),
     Marked(Leaf("string"), <<PyStr("active"), PyStr("pending")>>),
     Marked(Leaf("string"), <<>>),
     Marked(Leaf("number"), <<PyInt(1), PyNone>>),
     Marked(Obj("id" :> Leaf("string")), <<PyDict("id" :> PyStr("A"))>>),
     Marked(Arr(Leaf("string")), <<PyList(<<>>)>>),
     Obj(EmptyMap),
     Obj(("status" :> Marked(Leaf("string"), <<PyStr("active"), PyStr("pending")>>))
           @@ ("child" :> Leaf("boolean"))),
     Obj(("id" :> Marked(Leaf("string"), <<>>)) @@ ("child" :> Obj("id" :> Leaf("number")))),
     Obj("value" :> Leaf("string")),
     Obj("value" :> Leaf("number")),
     Obj("status" :> Leaf("boolean")),
     Obj("status" :> Obj("status" :> Leaf("string"))),
     Arr(Leaf("boolean")),
     Arr(Marked(Leaf("string"), <<PyStr("A")>>)),
     Arr(Obj("id" :> Marked(Leaf("string"), <<PyStr("A"), PyStr("B")>>))),
     Obj("child" :> Arr(Leaf("number"))),
     Leaf("object"), Leaf("array"), Leaf("null"), EmptyDict,
     Marked(Leaf("object"), <<PyStr("A")>>)}

\* schemas as inference gives them: one example analysed and annotated (the
\* examples without a list inside a list)
InferredSchemas ==
    {_add_preserved_field_info(MockDataGenerator_base_structure(<<d>>, 1), <<d>>) :
        d \in {e \in ExampleDocs :
                  \A k \in DOMAIN e.fields :
                      \A i \in DOMAIN e.fields[k].items : e.fields[k].items[i].t # "list"}}

FieldKeys == {"response.data.modelType", "response.data.insuranceType"}

FieldProfiles ==
    {EmptyMap,
     "response.data.modelType" :> <<>>,
     "response.data.modelType" :> <<PyStr("example 1")>>,
     ("response.data.modelType" :> <<PyStr("example 1"), PyStr("example 2")>>)
        @@ ("response.data.insuranceType" :> <<PyStr("example 3")>>)}

\* example_prob, in tenths
ExampleProbs == {0, DefaultExampleProb, 10}

\* what the lambda handed to _pick_example_or_faker can return
faker_func_of(field_key) ==
    IF field_key = "response.data.modelType"
    THEN choice(<<PyStr("model 1"), PyStr("example 1")>>)
    ELSE choice(<<PyStr("insurance 1"), PyStr("insurance 2")>>)

-----------------------------------------------------------------------------
(* Specification of the Value Synthesizer: one call of generate_mock_value *)
(* or of _pick_example_or_faker                                            *)

InitSynthesis ==
    /\ pc = "call"
    /\ \/ /\ structure \in SynthSchemas \cup InferredSchemas
          /\ field_hint \in FieldNames
          /\ field_profiles = EmptyMap
          /\ example_prob = DefaultExampleProb
       \/ /\ structure = NoValue
          /\ field_hint \in FieldKeys
          /\ field_profiles \in FieldProfiles
          /\ example_prob \in ExampleProbs
    /\ structure1 = NoValue
    /\ structure2 = NoValue
    /\ obj = PyNone
    /\ max_depth = 0
    /\ examples = <<>>
    /\ cache_key = PyNone
    /\ cache = EmptyMap
    /\ cache_hit = FALSE
    /\ result = NoValue
    /\ history = <<>>
    /\ thread = EmptyMap
    /\ config = Config
    /\ _generators = EmptyMap
    /\ saved_records = <<>>
    /\ validation_errors = <<>>
    /\ insurance_type = ""
    /\ num_records = 1

CallGenerateMockValue ==
    /\ pc = "call"
    /\ field_hint \in FieldNames
    /\ pc' = "generate_mock_value"
    /\ result' \in generate_mock_value(structure, field_hint)
    /\ UNCHANGED <<structure1, structure2, obj, max_depth, structure, examples, cache_key,
                   cache, cache_hit>>
    /\ UNCHANGED restVars

CallPickExampleOrFaker ==
    /\ pc = "call"
    /\ field_hint \in FieldKeys
    /\ pc' = "_pick_example_or_faker"
    /\ result' \in _pick_example_or_faker(field_profiles, example_prob, field_hint,
                                          faker_func_of(field_hint))
    /\ UNCHANGED <<structure1, structure2, obj, max_depth, structure, examples, cache_key,
                   cache, cache_hit>>
    /\ UNCHANGED restVars

NextSynthesis == CallGenerateMockValue \/ CallPickExampleOrFaker

SpecSynthesis == InitSynthesis /\ [][NextSynthesis]_vars

-----------------------------------------------------------------------------
(* Config: the preserve-set, and the annotation that follows a change of it *)

\* field names handed to add_preserve_field and remove_preserve_field
ConfigFields == {"status", "name", "child"}

add_preserve_field(c, field_name) ==
    [c EXCEPT !.preserve_fields = @ \cup {field_name}]

\* set.discard: no error when the name is absent
remove_preserve_field(c, field_name) ==
    [c EXCEPT !.preserve_fields = @ \ {field_name}]

list_preserve_fields(c) == c.preserve_fields

InitConfig ==
    /\ pc = "call"
    /\ examples \in SeqsUpTo(ExampleDocs, 1)
    /\ structure \in AnnotateSchemas
    /\ structure1 = NoValue
    /\ structure2 = NoValue
    /\ obj = PyNone
    /\ max_depth = 0
    /\ cache_key = PyNone
    /\ cache = EmptyMap
    /\ cache_hit = FALSE
    /\ result = NoValue
    /\ InitRest

CallAddPreserveField(field_name) ==
    /\ pc' = "add_preserve_field"
    /\ config' = add_preserve_field(config, field_name)
    /\ result' = PyNone
    /\ UNCHANGED <<structure1, structure2, obj, max_depth, structure, examples, cache_key,
                   cache, cache_hit, history, thread, field_hint, field_profiles,
                   example_prob, _generators, saved_records, validation_errors, insurance_type, num_records>>

CallRemovePreserveField(field_name) ==
    /\ pc' = "remove_preserve_field"
    /\ config' = remove_preserve_field(config, field_name)
    /\ result' = PyNone
    /\ UNCHANGED <<structure1, structure2, obj, max_depth, structure, examples, cache_key,
                   cache, cache_hit, history, thread, field_hint, field_profiles,
                   example_prob, _generators, saved_records, validation_errors, insurance_type, num_records>>

\* SchemaAnalyzer holds no reference to the Config: the annotation reads the
\* literal of _should_preserve_field
CallAnnotateAfterConfig ==
    /\ pc' = "_add_preserved_field_info"
    /\ result' = _add_preserved_field_info(structure, examples)
    /\ UNCHANGED <<structure1, structure2, obj, max_depth, structure, examples, cache_key,
                   cache, cache_hit>>
    /\ UNCHANGED restVars

ConfigOps ==
    \E field_name \in ConfigFields :
        \/ CallAddPreserveField(field_name)
        \/ CallRemovePreserveField(field_name)

NextConfig ==
    \/ ConfigOps
    \/ CallAnnotateAfterConfig

SpecConfig == InitConfig /\ [][NextConfig]_vars

-----------------------------------------------------------------------------
(* GeneratorRegistry *)

\* a class object, known by its name
PyClass(name) == [t |-> "type", v |-> 0, s |-> name, items |-> <<>>, fields |-> EmptyMap]

\* the classes handed to register: BaseGenerator, its subclasses in the
\* repository and the tests, and a class outside the hierarchy
GeneratorClasses == {"BaseGenerator", "InsuranceGenerator", "MockGenerator", "InvalidGenerator"}

\* issubclass(cls, BaseGenerator); a class is a subclass of itself
issubclass(cls, base) ==
    base = "BaseGenerator" /\ cls \in {"BaseGenerator", "InsuranceGenerator", "MockGenerator"}

GeneratorError == Raise("GeneratorError")

\* the mapping register leaves behind when it does not raise
register_NoOverwrite(generators, type, generator_class) ==
    IF type \in DOMAIN generators THEN generators
    ELSE (type :> generator_class) @@ generators
register(generators, type, generator_class) ==
    (type :> generator_class) @@ generators

get_generator(generators, type) ==
    IF type \in DOMAIN generators THEN PyClass(generators[type]) ELSE PyNone

get_available_types(generators) == DOMAIN generators

is_registered(generators, type) ==
    IF type \in DOMAIN generators THEN PyBool(1) ELSE PyBool(0)

\* the mapping unregister leaves behind; it returns True when it deleted
unregister(generators, type) ==
    [k \in DOMAIN generators \ {type} |-> generators[k]]

clear(generators) == EmptyMap

count(generators) == PyInt(Cardinality(DOMAIN generators))

-----------------------------------------------------------------------------
(* Specification of the registry: a sequence of calls on one                *)
(* GeneratorRegistry; history logs the calls that may change it             *)

RegistryTypes == {"insurance", "travel"}

InitRegistry ==
    /\ pc = "init"
    /\ structure1 = NoValue
    /\ structure2 = NoValue
    /\ obj = PyNone
    /\ max_depth = 0
    /\ structure = NoValue
    /\ examples = <<>>
    /\ cache_key = PyNone
    /\ cache = EmptyMap
    /\ cache_hit = FALSE
    /\ result = NoValue
    /\ InitRest

CallRegister(type, generator_class) ==
    /\ Len(history) < MaxCalls
    /\ pc' = "register"
    /\ insurance_type' = type
    /\ IF ~issubclass(generator_class, "BaseGenerator")
       THEN /\ result' = GeneratorError
            /\ _generators' = _generators
       ELSE /\ result' = PyNone
            /\ _generators' = register(_generators, type, generator_class)
    /\ history' = Append(history, [op |-> "register", key |-> type,
                                   value |-> generator_class])
    /\ UNCHANGED <<structure1, structure2, obj, max_depth, structure, examples, cache_key,
                   cache, cache_hit, thread, field_hint, field_profiles, example_prob,
                   config, saved_records, validation_errors, num_records>>

CallUnregister(type) ==
    /\ Len(history) < MaxCalls
    /\ pc' = "unregister"
    /\ insurance_type' = type
    /\ result' = is_registered(_generators, type)
    /\ _generators' = unregister(_generators, type)
    /\ history' = Append(history, [op |-> "unregister", key |-> type, value |-> ""])
    /\ UNCHANGED <<structure1, structure2, obj, max_depth, structure, examples, cache_key,
                   cache, cache_hit, thread, field_hint, field_profiles, example_prob,
                   config, saved_records, validation_errors, num_records>>

CallClear ==
    /\ Len(history) < MaxCalls
    /\ pc' = "clear"
    /\ result' = PyNone
    /\ _generators' = clear(_generators)
    /\ history' = Append(history, [op |-> "clear", key |-> "", value |-> ""])
    /\ UNCHANGED <<structure1, structure2, obj, max_depth, structure, examples, cache_key,
                   cache, cache_hit, thread, field_hint, field_profiles, example_prob,
                   config, saved_records, validation_errors, insurance_type, num_records>>

CallGetGenerator(type) ==
    /\ pc' = "get_generator"
    /\ insurance_type' = type
    /\ result' = get_generator(_generators, type)
    /\ UNCHANGED <<structure1, structure2, obj, max_depth, structure, examples, cache_key,
                   cache, cache_hit, history, thread, field_hint, field_profiles,
                   example_prob, config, _generators, saved_records, validation_errors, num_records>>

CallIsRegistered(type) ==
    /\ pc' = "is_registered"
    /\ insurance_type' = type
    /\ result' = is_registered(_generators, type)
    /\ UNCHANGED <<structure1, structure2, obj, max_depth, structure, examples, cache_key,
                   cache, cache_hit, history, thread, field_hint, field_profiles,
                   example_prob, config, _generators, saved_records, validation_errors, num_records>>

CallCount ==
    /\ pc' = "count"
    /\ result' = count(_generators)
    /\ UNCHANGED <<structure1, structure2, obj, max_depth, structure, examples, cache_key,
                   cache, cache_hit, history, thread, field_hint, field_profiles,
                   example_prob, config, _generators, saved_records, validation_errors, insurance_type,
                   num_records>>

NextRegistry ==
    \/ \E type \in RegistryTypes, generator_class \in GeneratorClasses :
           CallRegister(type, generator_class)
    \/ \E type \in RegistryTypes : CallUnregister(type)
    \/ CallClear
    \/ \E type \in RegistryTypes : CallGetGenerator(type)
    \/ \E type \in RegistryTypes : CallIsRegistered(type)
    \/ CallCount

SpecRegistry == InitRegistry /\ [][NextRegistry]_vars

-----------------------------------------------------------------------------
(* GenerateCommand, GeneratorFactory and GeneratorContext *)

\* GeneratorFactory._register_generators: the registry of a new factory
GeneratorFactory_registry == register(EmptyMap, "insurance", "InsuranceGenerator")

is_supported(generators, type) == is_registered(generators, type)

InsuranceTypeNotFoundError == Raise("InsuranceTypeNotFoundError")

\* the class create_generator instantiates
create_generator(generators, type) ==
    IF get_generator(generators, type) = PyNone
    THEN InsuranceTypeNotFoundError
    ELSE get_generator(generators, type)

\* InsuranceGenerator.generate_record; policy_number is random.randint's
\* outcome and the dates are Faker's
generate_record(policy_number) ==
    PyDict(("insurance_type" :> PyStr("general"))
           @@ ("policy_id" :> PyStr("POL-" \o ToString(policy_number)))
           @@ ("start_date" :> PyStr("faker.date()"))
           @@ ("end_date" :> PyStr("faker.date()"))
           @@ ("status" :> PyStr("active")))

\* the i-th number the random generator gives from internal state seed,
\* within randint(100000, 999999)
PolicyNumber(seed, i) == 100000 + ((seed + 7919 * i) % 900000)

\* the list of error messages
validate(generators, type, n) ==
    (IF is_supported(generators, type) = PyBool(0)
     THEN <<"Unsupported insurance type: " \o type>>
     ELSE <<>>)
    \o (IF n <= 0 THEN <<"Number of records must be greater than 0">>
        ELSE IF n > 1000 THEN <<"Number of records cannot exceed 1000">>
        ELSE <<>>)

ValueError == Raise("ValueError")

\* the saved records after GeneratorContext.save_records
save_records_KeepType(saved, type, records) ==
    saved \o records
save_records(saved, type, records) ==
    saved \o [i \in 1..Len(records) |->
                 [records[i] EXCEPT !.fields = ("insurance_type" :> PyStr(type)) @@ @]]

-----------------------------------------------------------------------------
(* Specification of the commands: GenerateCommand.execute calls on one      *)
(* GeneratorContext; history logs the calls                                 *)

CommandTypes == {"insurance", "nonexistent"}

NumRecords == {-1, 0, 1, 1000, 1001}

Seeds == {0, 899999}

InitCommand ==
    /\ pc = "init"
    /\ structure1 = NoValue
    /\ structure2 = NoValue
    /\ obj = PyNone
    /\ max_depth = 0
    /\ structure = NoValue
    /\ examples = <<>>
    /\ cache_key = PyNone
    /\ cache = EmptyMap
    /\ cache_hit = FALSE
    /\ result = NoValue
    /\ history = <<>>
    /\ thread = EmptyMap
    /\ field_hint = ""
    /\ field_profiles = EmptyMap
    /\ example_prob = DefaultExampleProb
    /\ config = Config
    /\ _generators = GeneratorFactory_registry
    /\ saved_records = <<>>
    /\ validation_errors = <<>>
    /\ insurance_type = ""
    /\ num_records = 1

\* GenerateCommand(type, n).execute(context)
CallExecute(type, n, seed) ==
    /\ Len(history) < MaxExecutes
    /\ pc' = "execute"
    /\ insurance_type' = type
    /\ num_records' = n
    /\ history' = Append(history, [op |-> "execute", key |-> type, value |-> n])
    /\ IF validate(_generators, type, n) # <<>>
       THEN /\ result' = ValueError
            /\ saved_records' = saved_records
       ELSE IF IsRaise(create_generator(_generators, type))
       THEN /\ result' = create_generator(_generators, type)
            /\ saved_records' = saved_records
       ELSE LET records == [i \in 1..n |-> generate_record(PolicyNumber(seed, i))]
                saved == save_records(saved_records, type, records)
            IN  /\ saved_records' = saved
                \* the returned list holds the dicts save_records has written to
                /\ result' = PyList(SubSeq(saved, Len(saved_records) + 1, Len(saved)))
    /\ UNCHANGED <<structure1, structure2, obj, max_depth, structure, examples, cache_key,
                   cache, cache_hit, thread, field_hint, field_profiles, example_prob,
                   config, _generators, validation_errors>>

NextCommand ==
    \E type \in CommandTypes, n \in NumRecords, seed \in Seeds : CallExecute(type, n, seed)

SpecCommand == InitCommand /\ [][NextCommand]_vars

-----------------------------------------------------------------------------
(* BaseValidator *)

\* the most messages kept in validation_errors
MaxErrors == 2

ValidationError(message, errors, data) ==
    [exception |-> "ValidationError", message |-> message,
     validation_errors |-> errors, data |-> data]

add_error(errors, error_message) == Append(errors, error_message)

clear_errors(errors) == <<>>

has_errors(errors) == Len(errors) > 0

\* what raise_if_errors does: the exception it raises, or None
raise_if_errors(errors, data) ==
    IF has_errors(errors)
    THEN ValidationError("Validation failed with " \o ToString(Len(errors)) \o " errors",
                         errors, data)
    ELSE PyNone

\* what validate_and_raise does once the subclass's validate has returned
\* is_valid and left errors in validation_errors
validate_and_raise(is_valid, errors, data) ==
    IF ~is_valid /\ IsRaise(raise_if_errors(errors, data))
    THEN raise_if_errors(errors, data)
    ELSE PyBool(IF is_valid THEN 1 ELSE 0)

-----------------------------------------------------------------------------
(* Specification of a validator: validate_and_raise and clear_errors calls  *)
(* on one instance of a subclass of BaseValidator. validate is abstract:    *)
(* a call of it is given by what it returns and the messages it adds with   *)
(* add_error                                                                *)

ValidatorData == {PyStr("valid"), PyStr("invalid"), PyNone, PyDict(EmptyMap)}

ErrorMessages == {"Invalid data", "Test error"}

InitValidator ==
    /\ pc = "init"
    /\ structure1 = NoValue
    /\ structure2 = NoValue
    /\ obj = PyNone
    /\ max_depth = 0
    /\ structure = NoValue
    /\ examples = <<>>
    /\ cache_key = PyNone
    /\ cache = EmptyMap
    /\ cache_hit = FALSE
    /\ result = NoValue
    /\ InitRest

CallValidateAndRaise(data, is_valid, added) ==
    /\ Len(history) < MaxCalls
    /\ Len(validation_errors) + Len(added) <= MaxErrors
    /\ pc' = "validate_and_raise"
    /\ obj' = data
    /\ LET errors == validation_errors \o added
       IN  /\ validation_errors' = errors
           /\ result' = validate_and_raise(is_valid, errors, data)
    /\ history' = Append(history, [op |-> "validate", key |-> "", value |-> is_valid])
    /\ UNCHANGED <<structure1, structure2, max_depth, structure, examples, cache_key, cache,
                   cache_hit, thread, field_hint, field_profiles, example_prob, config,
                   _generators, saved_records, insurance_type, num_records>>

CallClearErrors ==
    /\ pc' = "clear_errors"
    /\ validation_errors' = clear_errors(validation_errors)
    /\ result' = PyNone
    /\ UNCHANGED <<structure1, structure2, obj, max_depth, structure, examples, cache_key,
                   cache, cache_hit, history, thread, field_hint, field_profiles,
                   example_prob, config, _generators, saved_records, insurance_type,
                   num_records>>

NextValidator ==
    \/ \E data \in ValidatorData, is_valid \in BOOLEAN,
          added \in {<<>>} \cup {<<m>> : m \in ErrorMessages} :
           CallValidateAndRaise(data, is_valid, added)
    \/ CallClearErrors

SpecValidator == InitValidator /\ [][NextValidator]_vars

-----------------------------------------------------------------------------
(* Specification of annotation followed by synthesis: a schema is annotated *)
(* with the examples and a value is then synthesized from it                *)

FallbackSchemas ==
    {Obj("status" :> Leaf(k)) : k \in {"string", "number", "boolean"}}
      \cup {Obj("status" :> Obj("id" :> Leaf("string"))),
            Obj("status" :> Arr(Leaf("number"))),
            Obj(("status" :> Leaf("string")) @@ ("name" :> Leaf("string"))),
            Obj(("sign" :> Leaf("number")) @@ ("id" :> Leaf("string")))}

FallbackDocs ==
    {PyDict("status" :> PyStr("active")), PyDict("name" :> PyStr("x")), PyDict(EmptyMap),
     PyStr("active"), PyDict("id" :> PyInt(7))}

FallbackNames == {"", "status", "monthChange", "policy"}

InitFallback ==
    /\ pc = "call"
    /\ structure \in FallbackSchemas
    /\ examples \in SeqsUpTo(FallbackDocs, MaxExamples)
    /\ structure1 = NoValue
    /\ structure2 = NoValue
    /\ obj = PyNone
    /\ max_depth = 0
    /\ cache_key = PyNone
    /\ cache = EmptyMap
    /\ cache_hit = FALSE
    /\ result = NoValue
    /\ history = <<>>
    /\ thread = EmptyMap
    /\ field_hint \in FallbackNames
    /\ field_profiles = EmptyMap
    /\ example_prob = DefaultExampleProb
    /\ config = Config
    /\ _generators = EmptyMap
    /\ saved_records = <<>>
    /\ validation_errors = <<>>
    /\ insurance_type = ""
    /\ num_records = 1

\* the schema is annotated in place
CallAnnotateInPlace ==
    /\ pc = "call"
    /\ pc' = "_add_preserved_field_info"
    /\ structure' = _add_preserved_field_info(structure, examples)
    /\ result' = PyNone
    /\ UNCHANGED <<structure1, structure2, obj, max_depth, examples, cache_key, cache,
                   cache_hit>>
    /\ UNCHANGED restVars

CallGenerateFromAnnotated ==
    /\ pc = "_add_preserved_field_info"
    /\ pc' = "generate_mock_value"
    /\ result' \in generate_mock_value(structure, field_hint)
    /\ UNCHANGED <<structure1, structure2, obj, max_depth, structure, examples, cache_key,
                   cache, cache_hit>>
    /\ UNCHANGED restVars

NextFallback == CallAnnotateInPlace \/ CallGenerateFromAnnotated

SpecFallback == InitFallback /\ [][NextFallback]_vars

-----------------------------------------------------------------------------
(* Specification of the inference engine as a whole: a call of              *)
(* merge_structures or of _analyze_structure on its operands, or calls of   *)
(* analyze_structure on one analyzer                                        *)

InitInference == InitMerge \/ InitAnalyze \/ Init

\* analyze_structure is called on the analyzer that starts with an empty cache
CallPipeline ==
    /\ structure1 = NoValue
    /\ obj = PyNone
    /\ max_depth = 0
    /\ Next

\* the operands of the call tell which call it is
CallMerge == structure1 # NoValue /\ NextMerge

CallAnalyze == structure1 = NoValue /\ NextAnalyze

NextInference == CallMerge \/ CallAnalyze \/ CallPipeline

SpecInference == InitInference /\ [][NextInference]_vars

-----------------------------------------------------------------------------
(* Specification of the derived fingerprint: calls of analyze_structure    *)
(* with no cache_key, among calls whose cache_key a caller computed as      *)
(* str(hash(str(corpus))) for a corpus of its own                           *)

FingerprintCorpus == <<PyList(<<PyDict("id" :> PyStr("A"))>>)>>

FingerprintKeyArgs == {PyNone, PyStr(Fingerprints[FingerprintCorpus])}

NextFingerprint ==
    \E exs \in Corpora, key_arg \in FingerprintKeyArgs : analyze_structure(exs, key_arg)

SpecFingerprint == Init /\ [][NextFingerprint]_vars

-----------------------------------------------------------------------------
(* Properties of the Merger *)

\* the property paths of a schema: property names, "[]" for an array's items
RECURSIVE PropertyPaths(_)
PropertyPaths(n) ==
    IF GetType(n) = "object"
    THEN UNION {{<<k>>} \cup {<<k>> \o p : p \in PropertyPaths(n.properties[k])} :
                k \in DOMAIN GetProperties(n)}
    ELSE IF GetType(n) = "array" /\ "items" \in n.keys
    THEN {<<"[]">> \o p : p \in PropertyPaths(n.items[1])}
    ELSE {}

\* a and b never meet with two different kinds of which neither is String
RECURSIVE KindCompatible(_, _)
KindCompatible(a, b) ==
    IF GetType(a) # GetType(b)
    THEN GetType(a) = "string" \/ GetType(b) = "string"
    ELSE IF GetType(a) = "object"
    THEN \A k \in DOMAIN a.properties \cap DOMAIN b.properties :
             KindCompatible(a.properties[k], b.properties[k])
    ELSE IF GetType(a) = "array"
    THEN KindCompatible(a.items[1], b.items[1])
    ELSE TRUE

Merged == pc \in {"merge_structures", "MockDataGenerator._merge_structures"}

BothObjects == GetType(structure1) = "object" /\ GetType(structure2) = "object"

\* C1: merge_structures of two Objects is an Object over the union of their
\* property names; a one-sided property keeps its node, a shared property is
\* the merge of the two nodes.
C1_ObjectUnion ==
    (pc = "merge_structures" /\ BothObjects) =>
        /\ ~IsRaise(result)
        /\ GetType(result) = "object"
        /\ DOMAIN result.properties =
               DOMAIN structure1.properties \cup DOMAIN structure2.properties
        /\ \A k \in DOMAIN result.properties :
               result.properties[k] =
                   IF k \notin DOMAIN structure2.properties THEN structure1.properties[k]
                   ELSE IF k \notin DOMAIN structure1.properties THEN structure2.properties[k]
                   ELSE merge_structures(structure1.properties[k], structure2.properties[k])

\* C4 as stated: every property path of either operand is a path of the merge.
C4_Superset ==
    (Merged /\ ~IsRaise(result)) =>
        PropertyPaths(structure1) \cup PropertyPaths(structure2) \subseteq PropertyPaths(result)

\* C4 amended: MockDataGenerator._merge_structures keeps every property path
\* of the left operand, and every path of the right operand when the two
\* never meet with different kinds of which neither is String.
C4_LeftSuperset ==
    pc = "MockDataGenerator._merge_structures" =>
        /\ PropertyPaths(structure1) \subseteq PropertyPaths(result)
        /\ KindCompatible(structure1, structure2) =>
               PropertyPaths(structure2) \subseteq PropertyPaths(result)

C4_Witness ==
    /\ pc = "MockDataGenerator._merge_structures"
    /\ BothObjects
    /\ DOMAIN structure1.properties = {"a"}
    /\ DOMAIN structure2.properties = {"a"}
    /\ GetType(structure1.properties["a"]) = "object"
    /\ GetType(structure2.properties["a"]) = "object"
    /\ <<"a", "a">> \in PropertyPaths(structure1)
    /\ <<"a", "b">> \in PropertyPaths(structure2)
    /\ {<<"a", "a">>, <<"a", "b">>} \subseteq PropertyPaths(result)

\* C5: kinds differ -> the operand that is not String, the left one when
\* neither is String; same leaf kind -> the left operand unchanged.
C5_TieBreak ==
    Merged =>
        /\ (GetType(structure1) # GetType(structure2) /\ GetType(structure1) = "string")
               => result = structure2
        /\ (GetType(structure1) # GetType(structure2) /\ GetType(structure1) # "string")
               => result = structure1
        /\ (GetType(structure1) = GetType(structure2) /\ GetType(structure1) \in LeafKinds)
               => result = structure1

C5_Witness ==
    /\ pc = "merge_structures"
    /\ GetType(structure1) = "string"
    /\ GetType(structure2) = "object"
    /\ structure2.properties # EmptyMap
    /\ result = structure2

\* C6: merging an Analyzer schema with itself gives that schema.
C6_Idempotent ==
    (pc = "merge_structures" /\ structure1 = structure2) => result = structure1

-----------------------------------------------------------------------------
(* Properties of the Analyzer *)

\* the number of nested containers above the deepest node of a schema
RECURSIVE Height(_)
Height(n) ==
    IF GetType(n) = "object"
    THEN IF DOMAIN n.properties = {} THEN 0
         ELSE 1 + CHOOSE h \in {Height(n.properties[k]) : k \in DOMAIN n.properties} :
                      \A k \in DOMAIN n.properties : Height(n.properties[k]) <= h
    ELSE IF GetType(n) = "array" /\ "items" \in n.keys
    THEN 1 + Height(n.items[1])
    ELSE 0

\* merge_structures folded from the left over the schemas of the elements
RECURSIVE FoldMerge(_, _)
FoldMerge(schemas, n) ==
    IF n = 1 THEN schemas[1]
    ELSE LET left == FoldMerge(schemas, n - 1)
         IN  IF IsRaise(left) \/ IsRaise(schemas[n]) THEN Raise("AttributeError")
             ELSE merge_structures(left, schemas[n])

\* C2: a non-empty array analyses to Array{items: the left-to-right
\* fold-merge of the schemas of all its elements}.
C2_ArrayUnification ==
    (pc = "_analyze_structure" /\ max_depth > 0 /\ obj.t = "list" /\ obj.items # <<>>) =>
        /\ ~IsRaise(result)
        /\ GetType(result) = "array"
        /\ result.items =
               <<FoldMerge([i \in DOMAIN obj.items |->
                               _analyze_structure(obj.items[i], max_depth - 1)],
                           Len(obj.items))>>

\* C3: merge_structures, _analyze_structure and analyze_structure return a
\* schema for every well-formed input; none of them raises.
C3_Total ==
    pc \in {"merge_structures", "_analyze_structure", "analyze_structure"} => ~IsRaise(result)

\* C7: _analyze_structure(value, max_depth) does not raise and returns a
\* schema nested no deeper than max_depth.
C7_DepthGuard ==
    pc = "_analyze_structure" => (~IsRaise(result) /\ Height(result) <= max_depth)

\* the kind the spec gives a value
KindOfValue(o) ==
    CASE o.t = "NoneType" -> "null"
      [] o.t = "bool" -> "boolean"
      [] o.t \in {"int", "float"} -> "number"
      [] o.t = "str" -> "string"
      [] o.t = "list" -> "array"
      [] o.t = "dict" -> "object"

\* C8: within the depth budget every value is classified by its own kind,
\* a mapping with one child per key.
C8_Classification ==
    (pc = "_analyze_structure" /\ max_depth > 0) =>
        /\ ~IsRaise(result)
        /\ GetType(result) = KindOfValue(obj)
        /\ obj.t = "dict" => DOMAIN GetProperties(result) = DOMAIN obj.fields

-----------------------------------------------------------------------------
(* Properties of the Annotator *)

\* the values found at example[name], over the examples that are mappings
\* containing name, in the order of the examples
RECURSIVE FoundValues(_, _)
FoundValues(name, exs) ==
    IF exs = <<>> THEN <<>>
    ELSE LET last == exs[Len(exs)]
             before == FoundValues(name, SubSeq(exs, 1, Len(exs) - 1))
         IN  IF last.t = "dict" /\ name \in DOMAIN last.fields
             THEN Append(before, last.fields[name])
             ELSE before

\* the first occurrences of a sequence: entry i stays when no earlier entry equals it
FirstOccurrences(found) ==
    LET keep == {i \in DOMAIN found : \A j \in 1 .. i - 1 : ~PyEq(found[j], found[i])}
        nth[i \in 0 .. Len(found)] ==
            IF i = 0 THEN <<>>
            ELSE IF i \in keep THEN Append(nth[i - 1], found[i]) ELSE nth[i - 1]
    IN  nth[Len(found)]

\* C9: after annotating an Object schema, every property named in the
\* preserve-set has preserve_original = true and carries as original_values
\* the distinct values found at example[name], in first-occurrence order
\* (no original_values entry when none was found).
C9_Preservation ==
    (pc = "_add_preserved_field_info" /\ GetType(structure) = "object") =>
        \A name \in DOMAIN result.properties :
            LET node == result.properties[name]
                expected == FirstOccurrences(FoundValues(name, examples))
            IN  name \in preserve_fields =>
                     /\ "preserve_original" \in node.keys
                     /\ node.preserve_original = TRUE
                     /\ node.original_values = expected
                     /\ ("original_values" \in node.keys) = (expected # <<>>)
                     /\ \A i, j \in DOMAIN node.original_values :
                            i # j => ~PyEq(node.original_values[i], node.original_values[j])

C9_Witness ==
    /\ pc = "_add_preserved_field_info"
    /\ Len(examples) = 3
    /\ examples[1] = PyDict("status" :> PyStr("active"))
    /\ examples[2] = PyDict("status" :> PyStr("pending"))
    /\ examples[3] = PyDict("status" :> PyStr("active"))
    /\ "status" \in DOMAIN GetProperties(result)
    /\ result.properties["status"].preserve_original
    /\ result.properties["status"].original_values = <<PyStr("active"), PyStr("pending")>>

\* the values the examples hold at a path: a name selects the field of the
\* mappings, "[]" the elements of the sequences
RECURSIVE ValuesAt(_, _)
ValuesAt(values, path) ==
    IF path = <<>> THEN values
    ELSE IF Head(path) = "[]"
    THEN ValuesAt(UNION {{x.items[i] : i \in DOMAIN x.items} : x \in {v \in values : v.t = "list"}},
                  Tail(path))
    ELSE ValuesAt({x.fields[Head(path)] :
                      x \in {v \in values : v.t = "dict" /\ Head(path) \in DOMAIN v.fields}},
                  Tail(path))

RECURSIVE NodeAt(_, _)
NodeAt(n, path) ==
    IF path = <<>> THEN n
    ELSE IF Head(path) = "[]" THEN NodeAt(n.items[1], Tail(path))
    ELSE NodeAt(n.properties[Head(path)], Tail(path))

Range(q) == {q[i] : i \in DOMAIN q}

\* the schema was inferred from the examples it is annotated with
InferredFromExamples ==
    /\ examples # <<>>
    /\ structure = MockDataGenerator_base_structure(examples, Len(examples))

\* C10: each element of the original_values of the property at path P occurs
\* in some example at exactly path P.
C10_Scoping ==
    (pc = "_add_preserved_field_info" /\ InferredFromExamples) =>
        \A path \in PropertyPaths(result) :
            LET node == NodeAt(result, path)
            IN  \A i \in DOMAIN node.original_values :
                    node.original_values[i] \in ValuesAt(Range(examples), path)


-----------------------------------------------------------------------------
(* Properties of the Schema Cache *)

\* C11 as stated: once analyze_structure(E1, cache_key=k) has returned a
\* schema S, every later analyze_structure(E2, cache_key=k) returns S from
\* the cache, without analysing E2, for any key and any corpora
C11_OncePerKey ==
    [][(pc' = "analyze_structure" /\ cache_key'.t = "str")
         => \A S \in Returned(history, cache_key'.s, BOOLEAN) :
                result' = S /\ cache_hit']_vars

\* C11 as the code has it: the same, for a non-empty key and non-empty
\* corpora; the cache is left as it was
C11_OncePerKeyNonEmpty ==
    [][(pc' = "analyze_structure" /\ cache_key'.t = "str" /\ cache_key'.s # ""
          /\ examples' # <<>>)
         => \A S \in Returned(history, cache_key'.s, {FALSE}) :
                result' = S /\ cache_hit' /\ cache' = cache]_vars

\* a call with a key that is cached returned the stored schema although its
\* own corpus infers something else
C11_Witness ==
    /\ pc = "analyze_structure"
    /\ cache_key = PyStr("k1")
    /\ examples # <<>>
    /\ cache_hit
    /\ Returned(history, "k1", {FALSE}) = {result}
    /\ result # Inferred[examples]

\* the value of the most recent call in h for key k, None if there is none
RECURSIVE LastSet(_, _)
LastSet(h, k) ==
    IF h = <<>> THEN PyNone
    ELSE IF h[Len(h)].key = k THEN h[Len(h)].value
    ELSE LastSet(SubSeq(h, 1, Len(h) - 1), k)

\* C12: SchemaCache is a map without eviction: get_schema(k) returns the
\* schema of the most recent set_schema(k, .), None if k was never set, and
\* every key that was set stays readable with its latest schema
C12_Map ==
    /\ pc = "get_schema" => result = LastSet(history, cache_key.s)
    /\ \A k \in CacheKeys : get_schema(cache, k) = LastSet(history, k)

\* a key was set, another key was set after it, the first key was
\* overwritten, and a get of the first key returned the later schema
C12_Witness ==
    /\ pc = "get_schema"
    /\ Len(history) >= 3
    /\ \E i, j, l \in DOMAIN history :
          /\ i < j /\ j < l
          /\ history[i].key = cache_key.s
          /\ history[j].key # cache_key.s
          /\ history[l].key = cache_key.s
          /\ history[l].value # history[i].value
          /\ l = Len(history)
          /\ result = history[l].value
          /\ get_schema(cache, history[j].key) = history[j].value

\* the threads that have completed inference for the key k
InferenceRuns(k) ==
    {t \in DOMAIN thread :
        /\ thread[t].pc \in {"set_schema", "done"}
        /\ thread[t].key = k
        /\ thread[t].analysed
        /\ ~IsRaise(thread[t].result)}

\* C13: callers of analyze_structure with one fingerprint do not race on the
\* cache: inference for the fingerprint is computed at most once, and every
\* caller that has returned holds the schema stored under it
C13_NoRace ==
    \A t \in DOMAIN thread :
        thread[t].examples # <<>> =>
            /\ Cardinality(InferenceRuns(thread[t].key)) <= 1
            /\ (thread[t].pc = "done" /\ ~IsRaise(thread[t].result))
                   => thread[t].result = get_schema(cache, thread[t].key)

-----------------------------------------------------------------------------
(* Properties of the Value Synthesizer *)

\* every marked node with original values that the synthesis of value from
\* schema came to gave one of its original values
RECURSIVE RespectsPreservation(_, _)
RespectsPreservation(value, schema) ==
    IF HasOriginalValues(schema) THEN value \in choice(schema.original_values)
    ELSE IF GetType(schema) = "object" /\ value.t = "dict"
    THEN \A prop_name \in DOMAIN GetProperties(schema) \cap DOMAIN value.fields :
             RespectsPreservation(value.fields[prop_name], GetProperties(schema)[prop_name])
    ELSE IF GetType(schema) = "array" /\ value.t = "list" /\ "items" \in schema.keys
    THEN \A i \in DOMAIN value.items : RespectsPreservation(value.items[i], schema.items[1])
    ELSE TRUE

\* C14: with preservation probability 1.0, a field marked preserve_original
\* with non-empty original_values is always synthesized as one of those
\* values: by generate_mock_value for the node it is given, by
\* _generate_mock_object for every marked property, and by
\* _pick_example_or_faker with example_prob = 1.0 and a non-empty profile
C14_RespectsPreservation ==
    /\ pc = "generate_mock_value" => RespectsPreservation(result, structure)
    /\ (pc = "_pick_example_or_faker" /\ example_prob = 10
          /\ field_hint \in DOMAIN field_profiles /\ field_profiles[field_hint] # <<>>)
         => result \in choice(field_profiles[field_hint])

\* a marked node gave an original value that its kind would never fabricate,
\* a marked property inside an object did, or a profile with example_prob =
\* 1.0 gave its example where the lambda has other values
C14_Witness ==
    \/ /\ pc = "generate_mock_value"
       /\ HasOriginalValues(structure)
       /\ result = PyNone
    \/ /\ pc = "generate_mock_value"
       /\ GetType(structure) = "object"
       /\ ~HasOriginalValues(structure)
       /\ \E prop_name \in DOMAIN GetProperties(structure) :
             /\ HasOriginalValues(GetProperties(structure)[prop_name])
             /\ result.fields[prop_name] = PyStr("pending")
    \/ /\ pc = "_pick_example_or_faker"
       /\ example_prob = 10
       /\ field_hint = "response.data.insuranceType"
       /\ result = PyStr("example 3")

\* what generate_mock_value fabricates for the node by its kind alone
Fabricated(schema, name) ==
    generate_mock_value([schema EXCEPT !.preserve_original = FALSE], name)

\* C15: a node with preserve_original and non-empty original_values is
\* synthesized as one of its original values with probability p (default
\* 0.7) and fabricated by kind otherwise, so at the default both the original
\* values and the fabricated values are among the values the call can return
C15_PreservedOrFabricated ==
    (pc = "generate_mock_value" /\ HasOriginalValues(structure))
        => /\ choice(structure.original_values) \subseteq
                  generate_mock_value(structure, field_hint)
           /\ Fabricated(structure, field_hint) \subseteq
                  generate_mock_value(structure, field_hint)

\* the node is an Object with its properties map and no original values
PlainObject(schema) ==
    GetType(schema) = "object" /\ "properties" \in schema.keys /\ ~HasOriginalValues(schema)

\* the node is an Array with its items schema and no original values
PlainArray(schema) ==
    GetType(schema) = "array" /\ "items" \in schema.keys /\ ~HasOriginalValues(schema)

\* value is a list of 1 to 5 items, each one synthesized from the items schema
ArrayFollowsSchema(value, schema, name) ==
    /\ value.t = "list"
    /\ Len(value.items) \in 1..5
    /\ LET item_values == generate_mock_value(schema.items[1], name)
       IN  \A i \in DOMAIN value.items : value.items[i] \in item_values

\* the pairs of property and lowered parent name that _generate_mock_object
\* fabricates itself, with what it makes of them
Override(prop_name, parent) ==
    CASE prop_name = "value" /\ parent \in SavingFields -> uniform(1000, 1000000)
      [] prop_name = "currency" /\ parent \in SavingFields ->
            {PyStr("ILS"), PyStr("$"), PyStr("EUR"), PyStr("GBP")}
      [] prop_name = "sign" /\ parent = "monthchange" -> {PyStr("%")}
      [] prop_name = "status" /\ parent = "status" -> randint(0, 3)
      [] prop_name = "statusDesc" /\ parent = "status" ->
            {PyStr("Active"), PyStr("Inactive"), PyStr("Pending"), PyStr("Expired")}
      [] OTHER -> {}

\* C16 as stated: an Object node without preserved values is synthesized as
\* a mapping whose keys are the node's property names, each value
\* synthesized from the property's node under the property's name; an Array
\* node as a list of 1 to 5 items, each synthesized from the items schema
C16_FollowsSchema ==
    pc = "generate_mock_value" =>
        /\ PlainObject(structure) =>
              /\ result.t = "dict"
              /\ DOMAIN result.fields = DOMAIN structure.properties
              /\ \A prop_name \in DOMAIN structure.properties :
                     result.fields[prop_name] \in
                         generate_mock_value(structure.properties[prop_name], prop_name)
        /\ PlainArray(structure) => ArrayFollowsSchema(result, structure, field_hint)

\* C16 as the code has it: the same, but a property without original values
\* that _generate_mock_object fabricates itself for the parent's name gets
\* that fabricated value whatever its node says
C16_FollowsSchemaOrOverride ==
    pc = "generate_mock_value" =>
        /\ PlainObject(structure) =>
              /\ result.t = "dict"
              /\ DOMAIN result.fields = DOMAIN structure.properties
              /\ \A prop_name \in DOMAIN structure.properties :
                     LET prop_schema == structure.properties[prop_name]
                         own == Override(prop_name, lower(field_hint))
                     IN  result.fields[prop_name] \in
                             (IF own # {} /\ ~HasOriginalValues(prop_schema) THEN own
                              ELSE generate_mock_value(prop_schema, prop_name))
        /\ PlainArray(structure) => ArrayFollowsSchema(result, structure, field_hint)

\* an object came out with a property fabricated under its own name and a
\* nested object, or an array came out with five items that are not all equal
C16_Witness ==
    /\ pc = "generate_mock_value"
    /\ \/ /\ PlainObject(structure)
          /\ DOMAIN result.fields = {"id", "child"}
          /\ result.fields["id"] = PyStr("Mock_id_9999")
          /\ result.fields["child"].t = "dict"
       \/ /\ PlainArray(structure)
          /\ Len(result.items) = 5
          /\ result.items[1] # result.items[5]

\* the node is an Object without a properties map, an Array without items,
\* or has no recognised kind
Malformed(schema) ==
    \/ GetType(schema) = "object" /\ "properties" \notin schema.keys
    \/ GetType(schema) = "array" /\ "items" \notin schema.keys
    \/ GetType(schema) \notin {"object", "array", "string", "number", "boolean", "null"}

\* C17: synthesizing from a malformed schema node fails with
\* SchemaMalformedError and produces no value
C17_MalformedFails ==
    (pc = "generate_mock_value" /\ Malformed(structure))
        => IsRaise(result) /\ result.exception = "SchemaMalformedError"

-----------------------------------------------------------------------------
(* Properties of the preserve-set *)

\* at every level of schema s, a property is marked preserve_original exactly
\* when its bare name is in names
RECURSIVE MarksExactly(_, _)
MarksExactly(s, names) ==
    IF GetType(s) = "object" /\ "properties" \in s.keys
    THEN \A f \in DOMAIN s.properties :
            LET p == s.properties[f]
            IN  /\ ("preserve_original" \in p.keys /\ p.preserve_original) <=> (f \in names)
                /\ MarksExactly(p, names)
    ELSE IF GetType(s) = "array" /\ "items" \in s.keys
    THEN MarksExactly(s.items[1], names)
    ELSE TRUE

\* C18: an annotation marks a property exactly when its bare name is in the
\* configured preserve-set at that time (so after add_preserve_field(f) every
\* property named f is marked and after remove_preserve_field(f) none is),
\* and the annotation leaves the preserve-set as it was
C18_MarksConfigured ==
    [][CallAnnotateAfterConfig =>
          /\ MarksExactly(result', config.preserve_fields)
          /\ config' = config]_vars

-----------------------------------------------------------------------------
(* Properties of the Generator Registry *)

\* the class of the most recent register(type, .) in log h that did not raise
\* and that no later unregister(type) or clear followed; "" when there is none
RECURSIVE Registered(_, _)
Registered(h, type) ==
    IF h = <<>> THEN ""
    ELSE LET last == h[Len(h)]
             before == SubSeq(h, 1, Len(h) - 1)
         IN  IF last.op = "clear" THEN ""
             ELSE IF last.op = "unregister" /\ last.key = type THEN ""
             ELSE IF /\ last.op = "register"
                     /\ last.key = type
                     /\ last.value # "InvalidGenerator"
                  THEN last.value
             ELSE Registered(before, type)

\* C19: the registry is a map from insurance type to generator class:
\* get_generator, is_registered and count answer from the most recent
\* successful register of each type that no unregister or clear followed;
\* registering a type again overwrites without error; unregister returns
\* true exactly when the type was registered; register of a class outside
\* BaseGenerator raises GeneratorError and leaves the registry as it was
C19_RegistryIsMap ==
    LET before == SubSeq(history, 1, Len(history) - 1)
        last == history[Len(history)]
    IN  /\ \A type \in RegistryTypes :
              /\ get_generator(_generators, type) =
                     (IF Registered(history, type) = "" THEN PyNone
                      ELSE PyClass(Registered(history, type)))
              /\ is_registered(_generators, type) =
                     (IF Registered(history, type) = "" THEN PyBool(0) ELSE PyBool(1))
        /\ count(_generators) =
               PyInt(Cardinality({type \in RegistryTypes : Registered(history, type) # ""}))
        /\ pc = "get_generator" => result = get_generator(_generators, insurance_type)
        /\ pc = "is_registered" => result = is_registered(_generators, insurance_type)
        /\ pc = "count" => result = count(_generators)
        /\ pc = "unregister" =>
               result = (IF Registered(before, last.key) # "" THEN PyBool(1) ELSE PyBool(0))
        /\ pc = "register" =>
               IF last.value = "InvalidGenerator"
               THEN /\ result = GeneratorError
                    /\ \A type \in RegistryTypes :
                          get_generator(_generators, type) =
                              (IF Registered(before, type) = "" THEN PyNone
                               ELSE PyClass(Registered(before, type)))
               ELSE /\ result = PyNone
                    /\ get_generator(_generators, last.key) = PyClass(last.value)

\* a type was registered, registered again with another class, and a
\* register of a class outside BaseGenerator then raised; the registry still
\* answers with the second class
C19_Witness ==
    /\ pc = "get_generator"
    /\ Len(history) = 3
    /\ history[1].op = "register" /\ history[1].value = "MockGenerator"
    /\ history[2].op = "register" /\ history[2].value = "InsuranceGenerator"
    /\ history[3].op = "register" /\ history[3].value = "InvalidGenerator"
    /\ history[1].key = insurance_type
    /\ history[2].key = insurance_type
    /\ history[3].key = insurance_type
    /\ result = PyClass("InsuranceGenerator")

-----------------------------------------------------------------------------
(* Properties of the Generate Command *)

\* C20: execute raises ValueError and leaves the saved records unchanged
\* when the factory does not support the insurance type or num_records is
\* outside 1..1000; otherwise it appends exactly num_records records, each
\* with insurance_type equal to the command's type
C20_Execute ==
    [][pc' = "execute" =>
          IF insurance_type' \notin get_available_types(_generators)
                \/ num_records' \notin 1..1000
          THEN /\ result' = ValueError
               /\ saved_records' = saved_records
          ELSE /\ ~IsRaise(result')
               /\ Len(saved_records') = Len(saved_records) + num_records'
               /\ SubSeq(saved_records', 1, Len(saved_records)) = saved_records
               /\ \A i \in (Len(saved_records) + 1)..Len(saved_records') :
                     saved_records'[i].fields["insurance_type"] = PyStr(insurance_type')]_vars

\* a command for 1000 insurance records was executed and saved them, and a
\* command for 1001 records then failed
C20_Witness ==
    /\ pc = "execute"
    /\ Len(history) = 2
    /\ history[1] = [op |-> "execute", key |-> "insurance", value |-> 1000]
    /\ history[2] = [op |-> "execute", key |-> "insurance", value |-> 1001]
    /\ Len(saved_records) = 1000
    /\ saved_records[1000].fields["insurance_type"] = PyStr("insurance")
    /\ result = ValueError

-----------------------------------------------------------------------------
(* Properties of the validators *)

\* C21: validate_and_raise returns True when the validation passed and
\* raises ValidationError when it failed; it never returns False
C21_TrueOrRaise ==
    pc = "validate_and_raise" =>
        IF history[Len(history)].value
        THEN result = PyBool(1)
        ELSE IsRaise(result) /\ result.exception = "ValidationError"

-----------------------------------------------------------------------------
(* Properties of the empty-array placeholder *)

\* the schema _analyze_structure gives for an empty list
EmptyArraySchema == _analyze_structure(PyList(<<>>), DefaultMaxDepth)

\* C22: an empty array is analysed as an Array of Objects without
\* properties, and merging that schema with the schema of a non-empty
\* array, in either operand order, gives the non-empty array's item schema
C22_PlaceholderYields ==
    /\ EmptyArraySchema = Arr(Obj(EmptyMap))
    /\ \A real \in {structure1, structure2} :
          (/\ pc = "merge_structures"
           /\ {structure1, structure2} = {EmptyArraySchema, real}
           /\ GetType(real) = "array")
              => /\ ~IsRaise(result)
                 /\ result = real

-----------------------------------------------------------------------------
(* Properties of the Annotator's frame *)

AnnotationKeys == {"preserve_original", "original_values"}

\* schema after is schema before with nothing but annotation fields added:
\* same kind at every node, same property names, same items node
RECURSIVE OnlyAnnotated(_, _)
OnlyAnnotated(before, after) ==
    /\ before.keys \subseteq after.keys
    /\ after.keys \ before.keys \subseteq AnnotationKeys
    /\ after.type = before.type
    /\ DOMAIN after.properties = DOMAIN before.properties
    /\ \A k \in DOMAIN before.properties :
          OnlyAnnotated(before.properties[k], after.properties[k])
    /\ Len(after.items) = Len(before.items)
    /\ \A i \in DOMAIN before.items : OnlyAnnotated(before.items[i], after.items[i])

\* C23: annotation changes only annotation fields: kinds, property names
\* and items nodes are as before
C23_OnlyAnnotation ==
    pc = "_add_preserved_field_info" => OnlyAnnotated(structure, result)

\* an annotation has marked a property of the schema and a property of a
\* nested object, both with values
C23_Witness ==
    /\ pc = "_add_preserved_field_info"
    /\ result # structure
    /\ GetType(result) = "object"
    /\ "status" \in DOMAIN result.properties
    /\ result.properties["status"].original_values # <<>>
    /\ "child" \in DOMAIN result.properties
    /\ GetType(result.properties["child"]) = "object"
    /\ "status" \in DOMAIN result.properties["child"].properties
    /\ result.properties["child"].properties["status"].original_values # <<>>

-----------------------------------------------------------------------------
(* Properties of preserved fields without values *)

\* the node is marked and carries no original values
Valueless(node) ==
    /\ "preserve_original" \in node.keys
    /\ node.preserve_original
    /\ "original_values" \notin node.keys

\* after the annotation, a property named in the preserve-set for which no
\* example at that level has a value is marked and carries no values
MarkedWithoutValues ==
    pc = "_add_preserved_field_info" =>
        \A name \in DOMAIN GetProperties(structure) :
            (name \in preserve_fields /\ FoundValues(name, examples) = <<>>)
                => Valueless(structure.properties[name])

-----------------------------------------------------------------------------
(* Properties of the Annotator on inconsistent examples *)

\* schemas a and b of one shape carry the same original values at every node
RECURSIVE SameValues(_, _)
SameValues(a, b) ==
    /\ a.original_values = b.original_values
    /\ DOMAIN a.properties = DOMAIN b.properties
    /\ \A k \in DOMAIN a.properties : SameValues(a.properties[k], b.properties[k])
    /\ Len(a.items) = Len(b.items)
    /\ \A i \in DOMAIN a.items : SameValues(a.items[i], b.items[i])

\* the mappings found at the field of the examples that are mappings
MappingsAt(name, exs) ==
    LET at(e) == IF e.t = "dict" /\ name \in DOMAIN e.fields THEN e.fields[name] ELSE PyNone
    IN  SelectSeq([i \in DOMAIN exs |-> at(exs[i])], LAMBDA x : x.t = "dict")

\* the elements of the sequences found at the field of the examples that are
\* mappings, example by example
RECURSIVE ElementsAt(_, _)
ElementsAt(name, exs) ==
    IF exs = <<>> THEN <<>>
    ELSE LET e == exs[Len(exs)]
             before == ElementsAt(name, SubSeq(exs, 1, Len(exs) - 1))
         IN  IF e.t = "dict" /\ name \in DOMAIN e.fields /\ e.fields[name].t = "list"
             THEN before \o e.fields[name].items
             ELSE before

-----------------------------------------------------------------------------
(* Properties of the schemas the engine returns *)

\* each Object node has a properties map, each Array node one items node,
\* and a leaf has neither
RECURSIVE WellFormed(_)
WellFormed(n) ==
    IF GetType(n) = "object"
    THEN /\ "properties" \in n.keys
         /\ "items" \notin n.keys /\ n.items = <<>>
         /\ \A k \in DOMAIN n.properties : WellFormed(n.properties[k])
    ELSE IF GetType(n) = "array"
    THEN /\ "items" \in n.keys
         /\ Len(n.items) = 1
         /\ "properties" \notin n.keys /\ n.properties = EmptyMap
         /\ WellFormed(n.items[1])
    ELSE /\ GetType(n) \in {"string", "number", "boolean"}
         /\ "properties" \notin n.keys /\ n.properties = EmptyMap
         /\ "items" \notin n.keys /\ n.items = <<>>

\* C26: every schema that _analyze_structure, merge_structures or
\* analyze_structure returns is well-formed
C26_WellFormed ==
    (pc \in {"_analyze_structure", "merge_structures", "analyze_structure"}
        /\ ~IsRaise(result)) => WellFormed(result)

\* analyze_structure has returned an annotated schema with an array in it,
\* or merge_structures the union of two objects, or _analyze_structure the
\* schema of a mapping that holds an empty list
C26_Witness ==
    \/ /\ pc = "analyze_structure"
       /\ ~IsRaise(result)
       /\ "xs" \in DOMAIN GetProperties(result)
       /\ result.properties["xs"].items[1].properties["id"].original_values # <<>>
    \/ /\ pc = "merge_structures"
       /\ ~IsRaise(result)
       /\ DOMAIN GetProperties(result) = {"a", "b"}
       /\ DOMAIN GetProperties(structure1) = {"a"}
    \/ /\ pc = "_analyze_structure"
       /\ ~IsRaise(result)
       /\ \E k \in DOMAIN GetProperties(result) : result.properties[k] = Arr(Obj(EmptyMap))

-----------------------------------------------------------------------------
(* Properties of root-level arrays *)

\* the elements of the documents that are sequences, document by document
RECURSIVE Flattened(_)
Flattened(exs) ==
    IF exs = <<>> THEN <<>>
    ELSE LET last == exs[Len(exs)]
             before == Flattened(SubSeq(exs, 1, Len(exs) - 1))
         IN  IF last.t = "list" THEN before \o last.items ELSE before

\* C27: when the documents are arrays of objects, the schema that
\* analyze_structure infers carries, at each preserved field of the item
\* schema, the values found in the elements of all documents
C27_RootArrayValues ==
    (/\ pc = "analyze_structure"
     /\ ~cache_hit
     /\ ~IsRaise(result)
     /\ examples # <<>>
     /\ \A i \in DOMAIN examples : examples[i].t = "list"
     /\ GetType(result) = "array")
        => \A name \in DOMAIN GetProperties(result.items[1]) :
               name \in preserve_fields =>
                   result.items[1].properties[name].original_values =
                       FirstOccurrences(FoundValues(name, Flattened(examples)))

-----------------------------------------------------------------------------
(* Properties of the refactoring *)

\* C28: SchemaAnalyzer is behaviour-preserving: merge_structures and
\* _analyze_structure produce, for every input, the result that
\* MockDataGenerator._merge_structures and MockDataGenerator._analyze_structure
\* produce for it
C28_SameResult ==
    /\ pc = "merge_structures" =>
           result = MockDataGenerator_merge_structures(structure1, structure2)
    /\ pc = "_analyze_structure" =>
           result = MockDataGenerator_analyze_structure(obj, max_depth)

-----------------------------------------------------------------------------
(* Properties of the stored schemas *)

\* the schema of a corpus once analysed, folded and annotated
Annotated(exs) == _add_preserved_field_info(base_structure_of(exs, Len(exs)), exs)

\* C29: a call of analyze_structure leaves every schema the cache holds as
\* it is, under the key of the call and under every other key, and what it
\* stores is the annotated schema of its corpus
C29_StoredIsStable ==
    [][/\ \A k \in DOMAIN cache : k \in DOMAIN cache' /\ cache'[k] = cache[k]
       /\ \A k \in DOMAIN cache' \ DOMAIN cache :
              /\ k = derived_key(examples', cache_key')
              /\ cache'[k] = Annotated(examples')
              /\ cache'[k] = result']_vars

\* a call under a cached key with a corpus of another schema, with a second
\* key cached too
C29_Witness ==
    /\ pc = "analyze_structure"
    /\ cache_hit
    /\ cache_key = PyStr("k1")
    /\ ~IsRaise(Inferred[examples])
    /\ Inferred[examples] # cache["k1"]
    /\ "id" \in DOMAIN GetProperties(cache["k1"])
    /\ cache["k1"].properties["id"].original_values # <<>>
    /\ Cardinality(DOMAIN cache) >= 2

-----------------------------------------------------------------------------
(* Properties of the derived fingerprint *)

\* C30: a call of analyze_structure with no cache_key on a non-empty corpus
\* returns the schema inferred from that corpus, never the schema cached for
\* another one
C30_OwnSchema ==
    (/\ pc = "analyze_structure"
     /\ cache_key = PyNone
     /\ examples # <<>>
     /\ ~IsRaise(result))
        => result = Inferred[examples]

=============================================================================
